---- MODULE Spec2Model ----
(***************************************************************************)
(* A model of the multi-contact rigid body solver (RigidBodySimScene): one *)
(* cube against an infinite plane, sequential impulses with warm starting, *)
(* followed by a semi-implicit Euler integrator.                           *)
(*                                                                         *)
(* JavaScript numbers are modelled as fixed-point numbers with S units per *)
(* 1.0, plus the three non-finite values of IEEE arithmetic (PInf, NInf,   *)
(* NaN).  Every arithmetic operation rounds its exact result to the        *)
(* nearest unit, as the floating-point operation rounds to the nearest     *)
(* double, and a result beyond MaxFinite overflows to an infinity.  A      *)
(* vector is a triple <<x, y, z>>, a quaternion a 4-tuple <<x, y, z, w>>,  *)
(* a 3x3 matrix a triple of rows.                                          *)
(***************************************************************************)
EXTENDS Integers, Sequences, FiniteSets, TLC

\* ------------------------------------------------------------------------
\* Numbers
\* ------------------------------------------------------------------------

\* Units per 1.0 (the resolution of the number model).
S == 100 * 100

\* Largest finite magnitude; anything beyond overflows to an infinity.
MaxFinite == 50000 * S

PInf == 4 * MaxFinite
NInf == -PInf
NaN == PInf + 1

\* Number.isFinite / the global isFinite on a number.
isFinite(x) == x >= -MaxFinite /\ x <= MaxFinite

isNaN(x) == x = NaN

\* Overflow of a finite result.
Overflow(x) == IF x > MaxFinite THEN PInf ELSE IF x < -MaxFinite THEN NInf ELSE x

Sign(x) == IF x > 0 THEN 1 ELSE IF x < 0 THEN -1 ELSE 0

AbsInt(x) == IF x < 0 THEN -x ELSE x

\* a + b
Add(a, b) ==
    IF isFinite(a) /\ isFinite(b) THEN Overflow(a + b)
    ELSE IF isNaN(a) \/ isNaN(b) THEN NaN
    ELSE IF isFinite(a) THEN b
    ELSE IF isFinite(b) THEN a
    ELSE IF a = b THEN a ELSE NaN

\* -a
Neg(a) == IF isNaN(a) THEN NaN ELSE -a

\* a - b
Sub(a, b) == Add(a, Neg(b))

\* Product of two finite non-negative magnitudes, rounded to the nearest unit.
\* The operands are split so that no partial product leaves the integers of
\* TLC; a product that cannot fit is reported as MaxFinite + 1.
MulMag(a, b) ==
    LET ah == a \div S
        al == a % S
        bh == b \div S
        bl == b % S
    IN  IF ah > 0 /\ bh > (MaxFinite \div S) \div ah
        THEN MaxFinite + 1
        ELSE ah * bh * S + ah * bl + al * bh + (al * bl + S \div 2) \div S

\* a * b
Mul(a, b) ==
    IF isFinite(a) /\ isFinite(b)
    THEN Overflow(Sign(a) * Sign(b) * MulMag(AbsInt(a), AbsInt(b)))
    ELSE IF isNaN(a) \/ isNaN(b) THEN NaN
    ELSE IF a = 0 \/ b = 0 THEN NaN
    ELSE IF Sign(a) * Sign(b) > 0 THEN PInf ELSE NInf

\* Fraction digits of r / b for 0 <= r < b, one decimal digit at a time.
RECURSIVE FracDigits(_, _, _, _)
FracDigits(r, b, scale, acc) ==
    IF scale = 1
    THEN IF 2 * r >= b THEN acc + 1 ELSE acc
    ELSE FracDigits((r * 10) % b, b, scale \div 10, acc * 10 + (r * 10) \div b)

\* Quotient of two finite magnitudes, b > 0, rounded to the nearest unit.
DivMag(a, b) ==
    IF b > 20000 * S
    THEN (a + (b \div S) \div 2) \div (b \div S)
    ELSE IF a \div b > MaxFinite \div S
         THEN MaxFinite + 1
         ELSE (a \div b) * S + FracDigits(a % b, b, S, 0)

\* a / b (signed zeros are not modelled: x / 0 takes the sign of x)
Div(a, b) ==
    IF isNaN(a) \/ isNaN(b) THEN NaN
    ELSE IF isFinite(a) /\ isFinite(b)
         THEN IF b = 0
              THEN IF a = 0 THEN NaN ELSE IF a > 0 THEN PInf ELSE NInf
              ELSE Overflow(Sign(a) * Sign(b) * DivMag(AbsInt(a), AbsInt(b)))
         ELSE IF isFinite(a) THEN 0
         ELSE IF isFinite(b)
              THEN IF (a > 0) = (b >= 0) THEN PInf ELSE NInf
              ELSE NaN

\* Comparisons: every comparison with NaN is false.
Lt(a, b) == ~isNaN(a) /\ ~isNaN(b) /\ a < b
Le(a, b) == ~isNaN(a) /\ ~isNaN(b) /\ a <= b
Gt(a, b) == Lt(b, a)
Ge(a, b) == Le(b, a)

\* a !== b
StrictNe(a, b) == isNaN(a) \/ isNaN(b) \/ a # b

\* Math.max, Math.min, Math.abs
MathMax(a, b) == IF isNaN(a) \/ isNaN(b) THEN NaN ELSE IF a >= b THEN a ELSE b
MathMin(a, b) == IF isNaN(a) \/ isNaN(b) THEN NaN ELSE IF a <= b THEN a ELSE b
MathAbs(a) == IF isNaN(a) THEN NaN ELSE AbsInt(a)

\* THREE.MathUtils.clamp(value, min, max)
Clamp(value, lo, hi) == MathMax(lo, MathMin(hi, value))

\* Integer square root (floor), by bisection on [lo, hi].
RECURSIVE SqrtBisect(_, _, _)
SqrtBisect(n, lo, hi) ==
    IF lo >= hi THEN lo
    ELSE LET mid == (lo + hi + 1) \div 2
         IN  IF mid * mid <= n THEN SqrtBisect(n, mid, hi)
             ELSE SqrtBisect(n, lo, mid - 1)

\* Nearest integer to the square root of n, 0 <= n < 2^31.
ISqrt(n) ==
    LET r == SqrtBisect(n, 0, 46340)
    IN  IF n - r * r > r THEN r + 1 ELSE r

\* ------------------------------------------------------------------------
\* THREE.Vector3, THREE.Quaternion, THREE.Matrix3
\* ------------------------------------------------------------------------

Zero3 == <<0, 0, 0>>

\* The value of a reference that is still null.
Null == <<>>

VAdd(u, v) == <<Add(u[1], v[1]), Add(u[2], v[2]), Add(u[3], v[3])>>
VSub(u, v) == <<Sub(u[1], v[1]), Sub(u[2], v[2]), Sub(u[3], v[3])>>

\* Vector3.multiplyScalar
VScale(v, k) == <<Mul(v[1], k), Mul(v[2], k), Mul(v[3], k)>>

\* Vector3.addScaledVector
VAddScaled(u, v, k) == VAdd(u, VScale(v, k))

\* Vector3.dot
Dot(u, v) == Add(Add(Mul(u[1], v[1]), Mul(u[2], v[2])), Mul(u[3], v[3]))

\* Vector3.cross: this x v
Cross(u, v) ==
    << Sub(Mul(u[2], v[3]), Mul(u[3], v[2])),
       Sub(Mul(u[3], v[1]), Mul(u[1], v[3])),
       Sub(Mul(u[1], v[2]), Mul(u[2], v[1])) >>

VFinite(v) == isFinite(v[1]) /\ isFinite(v[2]) /\ isFinite(v[3])

\* Power of ten that brings a magnitude into the range whose square fits.
RECURSIVE ScaleFor(_)
ScaleFor(m) == IF m <= 20000 THEN 1 ELSE 10 * ScaleFor(m \div 10)

MaxOf(xs) == CHOOSE m \in xs : \A y \in xs : y <= m

\* Euclidean length of a tuple of numbers (Vector3.length, Quaternion.length).
Length(v) ==
    IF \E i \in DOMAIN v : isNaN(v[i]) THEN NaN
    ELSE IF \E i \in DOMAIN v : ~isFinite(v[i]) THEN PInf
    ELSE LET k == ScaleFor(MaxOf({AbsInt(v[i]) : i \in DOMAIN v}))
             sq(i) == (AbsInt(v[i]) \div k) * (AbsInt(v[i]) \div k)
             sum == IF Len(v) = 3 THEN sq(1) + sq(2) + sq(3)
                    ELSE sq(1) + sq(2) + sq(3) + sq(4)
         IN  Overflow(ISqrt(sum) * k)

\* Squared lengths that are only compared with the tiny thresholds 1e-12 and
\* 1e-6 are kept in units of 1/S^2, each component saturating at 2.0, so that
\* the comparison is decided as on the exact value.
FineCap == 2 * S

FineSq(x) == IF AbsInt(x) > FineCap THEN FineCap * FineCap ELSE x * x

\* Vector3.lengthSq, in units of 1/S^2
FineLengthSq(v) ==
    IF \E i \in 1..3 : isNaN(v[i]) THEN NaN
    ELSE IF ~VFinite(v) THEN PInf
    ELSE FineSq(v[1]) + FineSq(v[2]) + FineSq(v[3])

\* Vector3.distanceToSquared, in units of 1/S^2
FineDistanceToSquared(u, v) == FineLengthSq(VSub(u, v))

\* Vector3.normalize: divideScalar(length() || 1)
VNormalize(v) ==
    LET len == Length(v)
        d == IF len = 0 \/ isNaN(len) THEN S ELSE len
    IN  <<Div(v[1], d), Div(v[2], d), Div(v[3], d)>>

\* Quaternion.multiply: a * b
QMul(a, b) ==
    << Sub(Add(Add(Mul(a[1], b[4]), Mul(a[4], b[1])), Mul(a[2], b[3])), Mul(a[3], b[2])),
       Sub(Add(Add(Mul(a[2], b[4]), Mul(a[4], b[2])), Mul(a[3], b[1])), Mul(a[1], b[3])),
       Sub(Add(Add(Mul(a[3], b[4]), Mul(a[4], b[3])), Mul(a[1], b[2])), Mul(a[2], b[1])),
       Sub(Sub(Sub(Mul(a[4], b[4]), Mul(a[1], b[1])), Mul(a[2], b[2])), Mul(a[3], b[3])) >>

\* Quaternion.normalize: the identity when the length is 0
QNormalize(q) ==
    LET l == Length(q)
    IN  IF l = 0 THEN <<0, 0, 0, S>>
        ELSE <<Div(q[1], l), Div(q[2], l), Div(q[3], l), Div(q[4], l)>>

\* Matrix3.multiplyMatrices: A * B (matrices are triples of rows)
MatMul(A, B) ==
    [i \in 1..3 |->
        [j \in 1..3 |->
            Add(Add(Mul(A[i][1], B[1][j]), Mul(A[i][2], B[2][j])), Mul(A[i][3], B[3][j]))]]

\* Matrix3.transpose
Transpose(A) == [i \in 1..3 |-> [j \in 1..3 |-> A[j][i]]]

\* Vector3.applyMatrix3: M * v
ApplyMatrix3(v, M) == <<Dot(M[1], v), Dot(M[2], v), Dot(M[3], v)>>

\* RigidBodySimScene._quatToMatrix3: the rotation matrix of q
\* (Matrix4.makeRotationFromQuaternion, upper 3x3)
QuatToMatrix3(q) ==
    LET x == q[1]
        y == q[2]
        z == q[3]
        w == q[4]
        x2 == Add(x, x)
        y2 == Add(y, y)
        z2 == Add(z, z)
        xx == Mul(x, x2)
        xy == Mul(x, y2)
        xz == Mul(x, z2)
        yy == Mul(y, y2)
        yz == Mul(y, z2)
        zz == Mul(z, z2)
        wx == Mul(w, x2)
        wy == Mul(w, y2)
        wz == Mul(w, z2)
    IN  << <<Sub(S, Add(yy, zz)), Sub(xy, wz), Add(xz, wy)>>,
           <<Add(xy, wz), Sub(S, Add(xx, zz)), Sub(yz, wx)>>,
           <<Sub(xz, wy), Add(yz, wx), Sub(S, Add(xx, yy))>> >>

\* RigidBodySimScene._mat3MulVec3: Matrix3.toArray() is column-major, so the
\* rows it multiplies by are the columns of M.
Mat3MulVec3(M, v) ==
    << Add(Add(Mul(M[1][1], v[1]), Mul(M[2][1], v[2])), Mul(M[3][1], v[3])),
       Add(Add(Mul(M[1][2], v[1]), Mul(M[2][2], v[2])), Mul(M[3][2], v[3])),
       Add(Add(Mul(M[1][3], v[1]), Mul(M[2][3], v[2])), Mul(M[3][3], v[3])) >>

\* RigidBodySimScene._worldInertiaTensorInv: R * diag(1/Ix, 1/Iy, 1/Iz) * R^T
WorldInertiaTensorInv(c) ==
    LET Ibody == c.inertia
        ib == << <<Div(S, Ibody[1]), 0, 0>>,
                 <<0, Div(S, Ibody[2]), 0>>,
                 <<0, 0, Div(S, Ibody[3])>> >>
        R == QuatToMatrix3(c.quaternion)
    IN  MatMul(MatMul(R, ib), Transpose(R))

\* ------------------------------------------------------------------------
\* Cube, Plane and the fields of RigidBodySimScene
\* ------------------------------------------------------------------------

\* A number written as a decimal fraction num / den.
Frac(num, den) == (num * S) \div den

\* this.dt = 1 / 60
dt == Div(S, 60 * S)

\* this.gravity = (0, -9.81, 0)
DefaultGravity == <<0, -Frac(981, 100), 0>>

\* this.beta = 0.2
beta == Frac(2, 10)

\* this.penetrationSlop = 0.005
penetrationSlop == Frac(5, 1000)

\* this.linearDamping = 0.01, this.angularDamping = 0.05
DefaultLinearDamping == Frac(1, 100)
DefaultAngularDamping == Frac(5, 100)

\* this.gsIterations = 12
gsIterations == 12

\* this.maxPreCorrectionContacts = 4
maxPreCorrectionContacts == 4

\* 1e-12 and 1e-6 in units of 1/S^2 (the thresholds of lengthSq and tolSq)
TangentEpsSq == ((S * S) \div 1000000) \div 1000000
tolSq == (S * S) \div 1000000

\* The fallback position x.set(0, 2, 0) of the integrator.
FallbackPosition == <<0, 2 * S, 0>>

\* new Cube(position, size, staticFriction, kineticFriction, mass); the mesh is
\* created with the identity orientation.
NewCube(position, size, staticFriction, kineticFriction, mass) ==
    [ position |-> position,
      quaternion |-> <<0, 0, 0, S>>,
      velocity |-> Zero3,
      angularVelocity |-> Zero3,
      mass |-> mass,
      size |-> size,
      inertia |-> LET I == Div(Mul(Mul(mass, size), size), 6 * S) IN <<I, I, I>>,
      staticFriction |-> staticFriction,
      kineticFriction |-> kineticFriction ]

\* Plane.getNormal for the plane angles of the model: (sin a, cos a, 0),
\* normalized.  Angles are in degrees; 15 is the renderer's startingAngle.
PlaneNormal(angle) ==
    IF angle = 0 THEN VNormalize(<<0, S, 0>>)
    ELSE IF angle = 30 THEN VNormalize(<<Frac(5, 10), Frac(8660, 10000), 0>>)
    ELSE VNormalize(<<Frac(2588, 10000), Frac(9659, 10000), 0>>)

\* new Plane(angle): getPoint() is the mesh position (1, 0, 0).
NewPlane(angle) == [angle |-> angle, normal |-> PlaneNormal(angle), point |-> <<S, 0, 0>>]

\* The eight body-frame corners, in the order _collectContacts enumerates them.
Corners(half) ==
    << <<half, half, half>>, <<half, half, -half>>,
       <<half, -half, half>>, <<half, -half, -half>>,
       <<-half, half, half>>, <<-half, half, -half>>,
       <<-half, -half, half>>, <<-half, -half, -half>> >>

VARIABLES
    cube,              \* the Cube: position, quaternion, velocity, angularVelocity, ...
    plane,             \* the Plane
    gravity,           \* this.gravity
    linearDamping,     \* this.linearDamping
    angularDamping,    \* this.angularDamping
    warmStartEnabled,  \* this.warmStartEnabled
    muS,               \* this.muS
    muK,               \* this.muK
    inContact,         \* this.inContact
    prevContacts,      \* this._prevContacts
    contacts,          \* step(): const contacts
    Iinv,              \* step(): const Iinv
    pc,                \* the phase of step() that runs next ("idle" between steps)
    it,                \* _solveContactsGS: the sweep counter
    ci,                \* _solveContactsGS: the index of the contact being visited
    steps,             \* number of completed step() calls
    phaseLog,          \* history: the phases the current step() has run so far
    startCube,         \* history: the cube when the current step() began
    solvedCube,        \* history: the cube when the integrator of the last step began
    fellBack,          \* history: number of steps whose integrator stored the fallback
    initCube,          \* history: the cube as the host set it up before the first step
    restitution,       \* this.restitution
    paused,            \* SceneRenderer: this.paused
    toggleResult,      \* SceneRenderer: the value the last togglePause() returned
    pausedFrames,      \* history: animation frames since the renderer was paused
    rendererStaticFriction,   \* SceneRenderer: this.staticFriction
    rendererKineticFriction,  \* SceneRenderer: this.kineticFriction
    friction,          \* the Friction object: samples, weights, grids, profile cache
    frictionLog        \* history: the grids of the last directionalProfile() call
                       \* and the last call made on the Friction object

vars == << cube, plane, gravity, linearDamping, angularDamping, warmStartEnabled,
           muS, muK, inContact, prevContacts, contacts, Iinv, pc, it, ci, steps,
           phaseLog, startCube, solvedCube, fellBack, initCube, restitution,
           paused, toggleResult, pausedFrames,
           rendererStaticFriction, rendererKineticFriction, friction, frictionLog >>

config == << plane, gravity, linearDamping, angularDamping, warmStartEnabled, muS, muK,
            initCube, restitution, paused, toggleResult, pausedFrames,
            rendererStaticFriction, rendererKineticFriction, friction, frictionLog >>

\* ------------------------------------------------------------------------
\* The building blocks of step()
\* ------------------------------------------------------------------------

\* A variant of the impulse application that also shifts the body along the
\* impulse.
ApplyImpulseMovingBody(c, r, impulse, I) ==
    [c EXCEPT !.velocity = VAddScaled(c.velocity, impulse, Div(S, c.mass)),
              !.angularVelocity = VAdd(c.angularVelocity, Mat3MulVec3(I, Cross(r, impulse))),
              !.position = VAdd(c.position, impulse)]

\* _applyImpulse: v' = v + J/m, w' = w + Iinv (r x J)
ApplyImpulse(c, r, impulse, I) ==
    LET invMass == Div(S, c.mass)
        v == VAddScaled(c.velocity, impulse, invMass)
        rXJ == Cross(r, impulse)
        angDelta == Mat3MulVec3(I, rXJ)
        w == VAdd(c.angularVelocity, angDelta)
    IN  [c EXCEPT !.velocity = v, !.angularVelocity = w]

\* A variant of the corner test that leaves out the touching corners.
IsStrictlyBelow(phi) == Lt(phi, 0)

\* _collectContacts: the test that makes a corner a contact (phi <= 0)
IsContactCandidate(phi) == Le(phi, 0)

\* _collectContacts: the signed distance of a world point to the plane
SignedDistance(n, worldPt, p0) == Dot(n, VSub(worldPt, p0))

\* _collectContacts: the contact object pushed for corner i
NewContact(i, n, r, worldPt, phi) ==
    [ corner |-> i,
      n |-> n, r |-> r, point |-> worldPt, depth |-> Neg(phi),
      t1 |-> Null, t2 |-> Null,
      K_n |-> 0, K_t1 |-> 0, K_t2 |-> 0, bias |-> 0,
      lambda_n |-> 0, lambda_t1 |-> 0, lambda_t2 |-> 0,
      mu_t1 |-> 0, mu_t2 |-> 0 ]

RECURSIVE CollectFrom(_, _, _, _, _, _, _)
CollectFrom(i, acc, corners, R3, com, n, p0) ==
    IF i > Len(corners) THEN acc
    ELSE LET r == ApplyMatrix3(corners[i], R3)
             worldPt == VAdd(com, r)
             phi == SignedDistance(n, worldPt, p0)
         IN  CollectFrom(i + 1,
                 IF IsContactCandidate(phi)
                 THEN Append(acc, NewContact(i, n, r, worldPt, phi))
                 ELSE acc,
                 corners, R3, com, n, p0)

\* _collectContacts
CollectContacts(c, pl) ==
    LET n == VNormalize(pl.normal)
        p0 == pl.point
        half == Mul(S \div 2, c.size)
        R3 == QuatToMatrix3(c.quaternion)
    IN  CollectFrom(1, <<>>, Corners(half), R3, c.position, n, p0)

\* A variant of the search for the deepest contact that lets a later contact
\* of equal depth replace the one held.
RECURSIVE DeepestFromLastOnTies(_, _, _)
DeepestFromLastOnTies(i, deepest, all) ==
    IF i > Len(all) THEN deepest
    ELSE DeepestFromLastOnTies(i + 1,
             IF ~Lt(all[i].depth, deepest.depth) THEN all[i] ELSE deepest, all)

\* detectContact of the multi-contact solver: the loop over all[1..] that
\* keeps the deepest contact seen
RECURSIVE DeepestFrom(_, _, _)
DeepestFrom(i, deepest, all) ==
    IF i > Len(all) THEN deepest
    ELSE DeepestFrom(i + 1,
             IF Gt(all[i].depth, deepest.depth) THEN all[i] ELSE deepest, all)

\* detectContact of the multi-contact solver: the deepest collected contact,
\* or null
DetectContact(c, pl) ==
    LET all == CollectContacts(c, pl)
    IN  IF Len(all) = 0 THEN Null
        ELSE LET deepest == DeepestFrom(2, all[1], all)
             IN  [ normal |-> deepest.n, point |-> deepest.point,
                   r |-> deepest.r, depth |-> deepest.depth ]

\* detectContact of the single-contact solver: the loop over the corners, from
\* corner i on, that keeps the corner of most negative signed distance
RECURSIVE SingleDeepestFrom(_, _, _, _, _, _, _)
SingleDeepestFrom(i, deepest, corners, R3, com, n, p0) ==
    IF i > Len(corners) THEN deepest
    ELSE LET rWorld == ApplyMatrix3(corners[i], R3)
             worldPt == VAdd(com, rWorld)
             phi == SignedDistance(n, worldPt, p0)
         IN  SingleDeepestFrom(i + 1,
                 IF Le(phi, 0) /\ (deepest = Null \/ Lt(phi, deepest.phi))
                 THEN [ point |-> worldPt, r |-> rWorld, phi |-> phi ]
                 ELSE deepest,
                 corners, R3, com, n, p0)

\* detectContact of the single-contact solver
DetectContactSingle(c, pl) ==
    LET n == VNormalize(pl.normal)
        p0 == pl.point
        half == Mul(S \div 2, c.size)
        R3 == QuatToMatrix3(c.quaternion)
        deepest == SingleDeepestFrom(1, Null, Corners(half), R3, c.position, n, p0)
    IN  IF deepest = Null THEN Null
        ELSE [ normal |-> n, point |-> deepest.point,
               r |-> deepest.r, depth |-> Neg(deepest.phi) ]

Min(a, b) == IF a <= b THEN a ELSE b

\* A variant of the nudge that does not share the correction among the
\* contacts.
PreCorrectionUndivided(c, count) ==
    VScale(c.n, Sub(c.depth, penetrationSlop))

\* step(), phase 2: the nudge one contact applies to the position
PreCorrection(c, count) ==
    VScale(c.n, Div(Sub(c.depth, penetrationSlop),
                    Min(count, maxPreCorrectionContacts) * S))

\* A variant of the pre-correction loop that counts every contact it passes
\* against the cap, whether or not the contact moved the body.
RECURSIVE PreCorrectFromCountingAll(_, _, _, _)
PreCorrectFromCountingAll(i, corrected, position, cs) ==
    IF i > Len(cs) \/ corrected >= maxPreCorrectionContacts THEN position
    ELSE IF Gt(cs[i].depth, penetrationSlop)
         THEN PreCorrectFromCountingAll(i + 1, corrected + 1,
                             VAdd(position, PreCorrection(cs[i], Len(cs))), cs)
         ELSE PreCorrectFromCountingAll(i + 1, corrected + 1, position, cs)

\* step(), phase 2: the loop over the contacts, from contact i on
RECURSIVE PreCorrectFrom(_, _, _, _)
PreCorrectFrom(i, corrected, position, cs) ==
    IF i > Len(cs) \/ corrected >= maxPreCorrectionContacts THEN position
    ELSE IF Gt(cs[i].depth, penetrationSlop)
         THEN PreCorrectFrom(i + 1, corrected + 1,
                             VAdd(position, PreCorrection(cs[i], Len(cs))), cs)
         ELSE PreCorrectFrom(i + 1, corrected, position, cs)

\* _precomputeContacts: the relative velocity of the contact point
RelativeVelocity(cb, r) == VAdd(cb.velocity, Cross(cb.angularVelocity, r))

\* A variant of the tangent that always starts the Gram-Schmidt step from the
\* axis (0, 1, 0).
Tangent1AlwaysY(n, vRel) ==
    LET vt == VAddScaled(vRel, n, Neg(Dot(n, vRel)))
    IN  IF Gt(FineLengthSq(vt), TangentEpsSq)
        THEN VNormalize(vt)
        ELSE VNormalize(VSub(<<0, S, 0>>, VScale(n, Dot(<<0, S, 0>>, n))))

\* _precomputeContacts: the first tangent
Tangent1(n, vRel) ==
    LET vt == VAddScaled(vRel, n, Neg(Dot(n, vRel)))
    IN  IF Gt(FineLengthSq(vt), TangentEpsSq)
        THEN VNormalize(vt)
        ELSE LET axis == IF Lt(MathAbs(n[2]), Frac(9, 10))
                         THEN <<0, S, 0>> ELSE <<S, 0, 0>>
             IN  VNormalize(VSub(axis, VScale(n, Dot(axis, n))))

\* _precomputeContacts: Kdir = 1/m + dir . ((Iinv (r x dir)) x r)
Kdir(dir, r, I, invMass) ==
    Add(invMass, Dot(dir, Cross(Mat3MulVec3(I, Cross(r, dir)), r)))

\* A variant of the bias without the test against the slop.
BiasBelowSlopToo(depth) == Mul(Div(beta, dt), Sub(depth, penetrationSlop))

\* _precomputeContacts: the Baumgarte bias
Bias(depth) ==
    IF Gt(depth, penetrationSlop)
    THEN Mul(Div(beta, dt), Sub(depth, penetrationSlop))
    ELSE 0

\* _precomputeContacts: one contact
PrecomputeContact(c, cb, I, invMass) ==
    LET t1 == Tangent1(c.n, RelativeVelocity(cb, c.r))
        t2 == VNormalize(Cross(c.n, t1))
    IN  [c EXCEPT !.t1 = t1, !.t2 = t2,
                  !.K_n = Kdir(c.n, c.r, I, invMass),
                  !.K_t1 = Kdir(t1, c.r, I, invMass),
                  !.K_t2 = Kdir(t2, c.r, I, invMass),
                  !.bias = Bias(c.depth)]

\* _matchWarmStart: the inner loop, the cached contact nearest to r
RECURSIVE NearestFrom(_, _, _, _, _)
NearestFrom(j, best, bestD, r, prev) ==
    IF j > Len(prev) THEN <<best, bestD>>
    ELSE LET d == FineDistanceToSquared(r, prev[j].r)
         IN  IF Lt(d, bestD) THEN NearestFrom(j + 1, j, d, r, prev)
             ELSE NearestFrom(j + 1, best, bestD, r, prev)

\* A variant of the match that inherits from the nearest cached contact
\* however far away it is.
MatchContactAnyDistance(c, prev) ==
    LET m == NearestFrom(1, 0, PInf, c.r, prev)
    IN  IF m[1] # 0
        THEN [c EXCEPT !.lambda_n = prev[m[1]].lambda_n,
                       !.lambda_t1 = prev[m[1]].lambda_t1,
                       !.lambda_t2 = prev[m[1]].lambda_t2]
        ELSE c

\* A variant of the match that inherits the friction impulses of the nearest
\* cache entry without its normal impulse.
MatchContactFrictionOnly(c, prev) ==
    LET m == NearestFrom(1, 0, PInf, c.r, prev)
    IN  IF m[1] # 0 /\ Le(m[2], tolSq)
        THEN [c EXCEPT !.lambda_t1 = prev[m[1]].lambda_t1,
                       !.lambda_t2 = prev[m[1]].lambda_t2]
        ELSE c

\* _matchWarmStart: one contact
MatchContact(c, prev) ==
    LET m == NearestFrom(1, 0, PInf, c.r, prev)
    IN  IF m[1] # 0 /\ Le(m[2], tolSq)
        THEN [c EXCEPT !.lambda_n = prev[m[1]].lambda_n,
                       !.lambda_t1 = prev[m[1]].lambda_t1,
                       !.lambda_t2 = prev[m[1]].lambda_t2]
        ELSE c

\* _matchWarmStart
MatchWarmStart(cs, prev, enabled) ==
    IF ~enabled \/ Len(prev) = 0 THEN cs
    ELSE [i \in 1..Len(cs) |-> MatchContact(cs[i], prev)]

\* _warmStartApply: the impulse of one contact
ContactImpulse(c) ==
    VAdd(VAdd(VScale(c.n, c.lambda_n), VScale(c.t1, c.lambda_t1)),
         VScale(c.t2, c.lambda_t2))

\* _warmStartApply: the loop over the contacts, from contact i on
RECURSIVE WarmStartApplyFrom(_, _, _, _)
WarmStartApplyFrom(i, cb, cs, I) ==
    IF i > Len(cs) THEN cb
    ELSE WarmStartApplyFrom(i + 1, ApplyImpulse(cb, cs[i].r, ContactImpulse(cs[i]), I), cs, I)

\* _warmStartApply
WarmStartApply(cb, cs, I, enabled) ==
    IF ~enabled THEN cb ELSE WarmStartApplyFrom(1, cb, cs, I)

\* _solveContactsGS: const restitutionTerm = 0
restitutionTerm == 0

\* A variant of the normal clamp that keeps a negative total.
ClampNormalOff(total) == total

\* _solveContactsGS: the clamp of the running normal total
ClampNormal(total) == MathMax(total, 0)

\* A variant of the normal update that adds the restitution term
\* e * min(vn, 0) in every sweep.
NormalTotalWithRestitution(c, cb) ==
    LET vn == Dot(c.n, RelativeVelocity(cb, c.r))
        bounce == Mul(restitution, MathMin(vn, 0))
        dLambda_n == Div(Neg(Add(Add(vn, c.bias), bounce)), c.K_n)
    IN  ClampNormal(Add(c.lambda_n, dLambda_n))

\* _solveContactsGS: the new normal total of contact c
NormalTotal(c, cb) ==
    LET vn == Dot(c.n, RelativeVelocity(cb, c.r))
        dLambda_n == Div(Neg(Add(Add(vn, c.bias), restitutionTerm)), c.K_n)
    IN  ClampNormal(Add(c.lambda_n, dLambda_n))

\* A variant of the coefficient selection that always takes the static one.
SelectMuAlwaysStatic(candidate, lambda_n) == muS

\* _solveContactsGS: the friction coefficient an axis update uses
SelectMu(candidate, lambda_n) ==
    IF Gt(MathAbs(candidate), Mul(muS, lambda_n)) THEN muK ELSE muS

\* A variant of the friction clamp that keeps the candidate as it is.
ClampFrictionOff(candidate, maxF) == candidate

\* _solveContactsGS: the clamp of a running friction total
ClampFriction(candidate, maxF) == Clamp(candidate, Neg(maxF), maxF)

\* _solveContactsGS: the candidate friction total along axis t
FrictionCandidate(c, cb, t, lambda_t, K_t) ==
    Add(lambda_t, Div(Neg(Dot(t, RelativeVelocity(cb, c.r))), K_t))

\* A variant of the safety check that stores whatever was computed.
SafePositionOff(x) == x

\* _integrate: the numerical-safety check of the new position
SafePosition(x) == IF ~VFinite(x) THEN FallbackPosition ELSE x

\* A variant of the velocity update that damps by the default factor
\* whatever this.linearDamping holds.
IntegrateVelocityDefaultDamping(v) ==
    VScale(VAddScaled(v, gravity, dt), Sub(S, DefaultLinearDamping))

\* _integrate: the velocity after gravity and damping
IntegrateVelocity(v) == VScale(VAddScaled(v, gravity, dt), Sub(S, linearDamping))

\* _integrate: the position advanced with velocity v
IntegratePosition(x, v) == VAddScaled(x, v, dt)

\* A variant of the orientation update without the final q.normalize().
IntegrateQuaternionNoNormalize(q, w) ==
    LET halfDt == Mul(S \div 2, dt)
        dq == QMul(<<Mul(w[1], halfDt), Mul(w[2], halfDt), Mul(w[3], halfDt), 0>>, q)
    IN  <<Add(q[1], dq[1]), Add(q[2], dq[2]), Add(q[3], dq[3]), Add(q[4], dq[4])>>

\* _integrate: the orientation advanced with angular velocity w
IntegrateQuaternion(q, w) ==
    LET halfDt == Mul(S \div 2, dt)
        dq == QMul(<<Mul(w[1], halfDt), Mul(w[2], halfDt), Mul(w[3], halfDt), 0>>, q)
    IN  QNormalize(<<Add(q[1], dq[1]), Add(q[2], dq[2]), Add(q[3], dq[3]), Add(q[4], dq[4])>>)

\* A variant of the integrator that advances the position with the velocity
\* it was handed and turns the body with the undamped angular velocity.
IntegrateCubeExplicit(cb) ==
    LET v == IntegrateVelocity(cb.velocity)
        x == SafePosition(IntegratePosition(cb.position, cb.velocity))
        w == VScale(cb.angularVelocity, Sub(S, angularDamping))
    IN  [cb EXCEPT !.velocity = v, !.position = x, !.angularVelocity = w,
                   !.quaternion = IntegrateQuaternion(cb.quaternion, cb.angularVelocity)]

\* _integrate
IntegrateCube(cb) ==
    LET v == IntegrateVelocity(cb.velocity)
        x == SafePosition(IntegratePosition(cb.position, v))
        w == VScale(cb.angularVelocity, Sub(S, angularDamping))
    IN  [cb EXCEPT !.velocity = v, !.position = x, !.angularVelocity = w,
                   !.quaternion = IntegrateQuaternion(cb.quaternion, w)]

\* ------------------------------------------------------------------------
\* Initial states
\* ------------------------------------------------------------------------

\* Number of step() calls a behaviour makes.
MaxSteps == 8

Identity == <<0, 0, 0, S>>

\* The renderer's cube: size 4, mass 5, friction 0.6 / 0.5 (scene.js).
SceneSize == 4 * S
SceneMass == 5 * S
SceneStaticFriction == Frac(6, 10)
SceneKineticFriction == Frac(5, 10)

\* A scenario is the state a host puts the cube and the solver in, through
\* the cube's setters and the solver's public fields, after constructing
\* them: [x, v, w, q, angle, g, damped, sf, kf].  The first one is the state
\* the constructors leave untouched.
Scn(x, v, w, q, angle, g, damped, sf, kf) ==
    [x |-> x, v |-> v, w |-> w, q |-> q, angle |-> angle, g |-> g,
     damped |-> damped, sf |-> sf, kf |-> kf]

Scenarios ==
    LET sf == SceneStaticFriction
        kf == SceneKineticFriction
        G == DefaultGravity
    IN  { \* as constructed, above the inclined plane
          Scn(<<0, 10 * S, 0>>, Zero3, Zero3, Identity, 15, G, TRUE, sf, kf),
          \* at rest, touching the horizontal plane with its lower face
          Scn(<<0, 2 * S, 0>>, Zero3, Zero3, Identity, 0, G, TRUE, sf, kf),
          \* touching, sliding along the plane
          Scn(<<0, 2 * S, 0>>, <<Frac(3, 10), 0, 0>>, Zero3, Identity, 0, G, TRUE, sf, kf),
          Scn(<<0, 2 * S, 0>>, <<Frac(2, 10), 0, Frac(1, 10)>>, Zero3, Identity, 0, G, TRUE,
              Frac(2, 10), Frac(4, 10)),
          \* touching, moving away from the plane
          Scn(<<0, 2 * S, 0>>, <<0, S, 0>>, Zero3, Identity, 0, G, TRUE, sf, kf),
          \* falling onto the plane, flat
          Scn(<<0, 2 * S + Frac(3, 100), 0>>, <<0, -3 * S, 0>>, Zero3, Identity, 0, G, TRUE, sf, kf),
          \* falling onto the plane, tilted about z
          Scn(<<0, 2 * S + Frac(76, 100), 0>>, <<0, -2 * S, 0>>, Zero3,
              <<0, 0, Frac(28, 100), Frac(96, 100)>>, 0, G, TRUE, sf, kf),
          \* tilted about z and overlapping the plane with four corners
          Scn(<<0, Frac(6, 10), 0>>, Zero3, Zero3,
              <<0, 0, Frac(28, 100), Frac(96, 100)>>, 0, G, TRUE, sf, kf),
          \* touching the inclined plane with one edge
          Scn(<<0, 2 * S + Frac(8, 10), 0>>, Zero3, Zero3, Identity, 15, G, TRUE, sf, kf),
          \* free flight without gravity and damping, not spinning
          Scn(<<0, 10 * S, 0>>, <<S, 2 * S, -S>>, Zero3, Identity, 0, Zero3, FALSE, sf, kf),
          Scn(<<0, 10 * S, 0>>, <<-Frac(5, 10), Frac(25, 100), 0>>, Zero3,
              <<0, 0, Frac(6, 10), Frac(8, 10)>>, 15, Zero3, FALSE, sf, kf),
          \* free flight without gravity and damping, spinning
          Scn(<<0, 10 * S, 0>>, <<S, 0, 0>>, <<0, 4 * S, S>>, Identity, 0, Zero3, FALSE, sf, kf),
          \* free fall, spinning
          Scn(<<0, 10 * S, 0>>, Zero3, <<S, 2 * S, 3 * S>>, Identity, 15, G, TRUE, sf, kf) }

\* this.restitution = 0.05
DefaultRestitution == Frac(5, 100)

\* new Cube(..., size, ..., mass), new Plane(angle),
\* new RigidBodySimScene(cube, plane), then the host's settings sc and e
\* (this.restitution).  Neither constructor examines its arguments.
InitRigidBody(sc, warm, size, mass, e) ==
    LET c0 == NewCube(<<-5 * S, 10 * S, 0>>, size, sc.sf, sc.kf, mass)
        \* RigidBodySimScene constructor: the start state
        c1 == [c0 EXCEPT !.position = <<0, 10 * S, 0>>, !.velocity = Zero3,
                         !.angularVelocity = Zero3]
    IN  /\ cube = [c1 EXCEPT !.position = sc.x, !.velocity = sc.v,
                             !.angularVelocity = sc.w, !.quaternion = sc.q]
        /\ plane = NewPlane(sc.angle)
        /\ gravity = sc.g
        /\ linearDamping = IF sc.damped THEN DefaultLinearDamping ELSE 0
        /\ angularDamping = IF sc.damped THEN DefaultAngularDamping ELSE 0
        /\ warmStartEnabled = warm
        /\ muS = c1.staticFriction
        /\ muK = c1.kineticFriction
        /\ inContact = FALSE
        /\ prevContacts = <<>>
        /\ contacts = <<>>
        /\ Iinv = << Zero3, Zero3, Zero3 >>
        /\ pc = "idle"
        /\ it = 0
        /\ ci = 0
        /\ steps = 0
        /\ phaseLog = <<>>
        /\ startCube = cube
        /\ solvedCube = cube
        /\ fellBack = 0
        /\ initCube = cube
        /\ restitution = e
        /\ paused = FALSE
        /\ toggleResult = FALSE
        /\ pausedFrames = 0
        /\ rendererStaticFriction = sc.sf
        /\ rendererKineticFriction = sc.kf

\* The program constructs no Friction object next to the scene.
InitBody(sc, warm, size, mass, e) ==
    /\ InitRigidBody(sc, warm, size, mass, e)
    /\ friction = Null
    /\ frictionLog = Null

\* The renderer's cube (size 4, mass 5) with the default restitution.
InitWith(sc, warm) == InitBody(sc, warm, SceneSize, SceneMass, DefaultRestitution)

\* The restitution coefficients a host gives a scenario: a cube that falls
\* onto the plane is also run with a bouncy material.
Restitutions(sc) ==
    IF sc.v[2] < 0 THEN {DefaultRestitution, Frac(8, 10)} ELSE {DefaultRestitution}

Init ==
    \E sc \in Scenarios : \E warm \in BOOLEAN : \E e \in Restitutions(sc) :
        InitBody(sc, warm, SceneSize, SceneMass, e)

\* ------------------------------------------------------------------------
\* step(), one action per phase
\* ------------------------------------------------------------------------

\* A variant of the detection that reports contact whatever it collected.
CollectAlwaysInContact ==
    /\ pc = "idle"
    /\ steps < MaxSteps
    /\ Iinv' = WorldInertiaTensorInv(cube)
    /\ contacts' = CollectContacts(cube, plane)
    /\ inContact' = TRUE
    /\ pc' = "precorrect"
    /\ phaseLog' = <<"collect">>
    /\ startCube' = cube
    /\ UNCHANGED << cube, config, prevContacts, it, ci, steps, solvedCube, fellBack >>

\* step(): Iinv, then 1) collect all contacts at/below the plane
Collect ==
    /\ pc = "idle"
    /\ steps < MaxSteps
    /\ Iinv' = WorldInertiaTensorInv(cube)
    /\ contacts' = CollectContacts(cube, plane)
    /\ inContact' = (Len(contacts') > 0)
    /\ pc' = "precorrect"
    /\ phaseLog' = <<"collect">>
    /\ startCube' = cube
    /\ UNCHANGED << cube, config, prevContacts, it, ci, steps, solvedCube, fellBack >>

\* step(): 2) positional pre-correction
PreCorrect ==
    /\ pc = "precorrect"
    /\ cube' = [cube EXCEPT !.position = PreCorrectFrom(1, 0, cube.position, contacts)]
    /\ pc' = "precompute"
    /\ phaseLog' = Append(phaseLog, "precorrect")
    /\ UNCHANGED << config, inContact, prevContacts, contacts, Iinv, it, ci, steps,
                    startCube, solvedCube, fellBack >>

\* step(): 3) _precomputeContacts
Precompute ==
    /\ pc = "precompute"
    /\ contacts' = [i \in 1..Len(contacts) |->
                       PrecomputeContact(contacts[i], cube, Iinv, Div(S, cube.mass))]
    /\ pc' = "match"
    /\ phaseLog' = Append(phaseLog, "precompute")
    /\ UNCHANGED << cube, config, inContact, prevContacts, Iinv, it, ci, steps,
                    startCube, solvedCube, fellBack >>

\* step(): 4) _matchWarmStart
Match ==
    /\ pc = "match"
    /\ contacts' = MatchWarmStart(contacts, prevContacts, warmStartEnabled)
    /\ pc' = "apply"
    /\ phaseLog' = Append(phaseLog, "match")
    /\ UNCHANGED << cube, config, inContact, prevContacts, Iinv, it, ci, steps,
                    startCube, solvedCube, fellBack >>

\* A variant of step() that goes from the warm start straight to the cache.
ApplySkipsSolver ==
    /\ pc = "apply"
    /\ cube' = WarmStartApply(cube, contacts, Iinv, warmStartEnabled)
    /\ pc' = "cache" /\ it' = 0 /\ ci' = 0
    /\ phaseLog' = Append(phaseLog, "apply")
    /\ UNCHANGED << config, inContact, prevContacts, contacts, Iinv, steps,
                    startCube, solvedCube, fellBack >>

\* step(): 4) _warmStartApply, then the entry of 5) if (contacts.length)
Apply ==
    /\ pc = "apply"
    /\ cube' = WarmStartApply(cube, contacts, Iinv, warmStartEnabled)
    /\ IF Len(contacts) > 0 /\ gsIterations > 0
       THEN pc' = "normal" /\ it' = 0 /\ ci' = 1
            /\ phaseLog' = phaseLog \o <<"apply", "sweep">>
       ELSE pc' = "cache" /\ it' = 0 /\ ci' = 0
            /\ phaseLog' = Append(phaseLog, "apply")
    /\ UNCHANGED << config, inContact, prevContacts, contacts, Iinv, steps,
                    startCube, solvedCube, fellBack >>

\* _solveContactsGS: the normal update of contact ci in sweep it
SolveNormal ==
    /\ pc = "normal"
    /\ LET c == contacts[ci]
           lambda_n_new == NormalTotal(c, cube)
           dLambda_n == Sub(lambda_n_new, c.lambda_n)
       IN  /\ contacts' = [contacts EXCEPT ![ci].lambda_n = lambda_n_new]
           /\ cube' = IF StrictNe(dLambda_n, 0)
                      THEN ApplyImpulse(cube, c.r, VScale(c.n, dLambda_n), Iinv)
                      ELSE cube
    /\ pc' = "t1"
    /\ UNCHANGED << config, inContact, prevContacts, Iinv, it, ci, steps, phaseLog,
                    startCube, solvedCube, fellBack >>

\* A variant of the t1 update that applies the whole clamped total to the
\* body instead of its change.
SolveT1AppliesTotal ==
    /\ pc = "t1"
    /\ LET c == contacts[ci]
           candidate == FrictionCandidate(c, cube, c.t1, c.lambda_t1, c.K_t1)
           mu == SelectMu(candidate, c.lambda_n)
           lambda_t1_new == ClampFriction(candidate, Mul(mu, c.lambda_n))
       IN  /\ contacts' = [contacts EXCEPT ![ci].lambda_t1 = lambda_t1_new,
                                            ![ci].mu_t1 = mu]
           /\ cube' = IF StrictNe(lambda_t1_new, 0)
                      THEN ApplyImpulse(cube, c.r, VScale(c.t1, lambda_t1_new), Iinv)
                      ELSE cube
    /\ pc' = "t2"
    /\ UNCHANGED << config, inContact, prevContacts, Iinv, it, ci, steps, phaseLog,
                    startCube, solvedCube, fellBack >>

\* _solveContactsGS: the friction update along t1 of contact ci
SolveT1 ==
    /\ pc = "t1"
    /\ LET c == contacts[ci]
           candidate == FrictionCandidate(c, cube, c.t1, c.lambda_t1, c.K_t1)
           mu == SelectMu(candidate, c.lambda_n)
           lambda_t1_new == ClampFriction(candidate, Mul(mu, c.lambda_n))
           dLambda_t1 == Sub(lambda_t1_new, c.lambda_t1)
       IN  /\ contacts' = [contacts EXCEPT ![ci].lambda_t1 = lambda_t1_new,
                                            ![ci].mu_t1 = mu]
           /\ cube' = IF StrictNe(dLambda_t1, 0)
                      THEN ApplyImpulse(cube, c.r, VScale(c.t1, dLambda_t1), Iinv)
                      ELSE cube
    /\ pc' = "t2"
    /\ UNCHANGED << config, inContact, prevContacts, Iinv, it, ci, steps, phaseLog,
                    startCube, solvedCube, fellBack >>

\* A variant of the t2 update whose loop control starts the next sweep
\* without counting it.
SolveT2NoCount ==
    /\ pc = "t2"
    /\ LET c == contacts[ci]
           candidate == FrictionCandidate(c, cube, c.t2, c.lambda_t2, c.K_t2)
           mu == SelectMu(candidate, c.lambda_n)
           lambda_t2_new == ClampFriction(candidate, Mul(mu, c.lambda_n))
           dLambda_t2 == Sub(lambda_t2_new, c.lambda_t2)
       IN  /\ contacts' = [contacts EXCEPT ![ci].lambda_t2 = lambda_t2_new,
                                            ![ci].mu_t2 = mu]
           /\ cube' = IF StrictNe(dLambda_t2, 0)
                      THEN ApplyImpulse(cube, c.r, VScale(c.t2, dLambda_t2), Iinv)
                      ELSE cube
    /\ pc' = "normal" /\ ci' = (IF ci < Len(contacts) THEN ci + 1 ELSE 1)
    /\ it' = it /\ phaseLog' = phaseLog
    /\ UNCHANGED << config, inContact, prevContacts, Iinv, steps,
                    startCube, solvedCube, fellBack >>

\* _solveContactsGS: the friction update along t2 of contact ci, then the
\* loop control: next contact, next sweep, or the end of the solver
SolveT2 ==
    /\ pc = "t2"
    /\ LET c == contacts[ci]
           candidate == FrictionCandidate(c, cube, c.t2, c.lambda_t2, c.K_t2)
           mu == SelectMu(candidate, c.lambda_n)
           lambda_t2_new == ClampFriction(candidate, Mul(mu, c.lambda_n))
           dLambda_t2 == Sub(lambda_t2_new, c.lambda_t2)
       IN  /\ contacts' = [contacts EXCEPT ![ci].lambda_t2 = lambda_t2_new,
                                            ![ci].mu_t2 = mu]
           /\ cube' = IF StrictNe(dLambda_t2, 0)
                      THEN ApplyImpulse(cube, c.r, VScale(c.t2, dLambda_t2), Iinv)
                      ELSE cube
    /\ IF ci < Len(contacts)
       THEN pc' = "normal" /\ ci' = ci + 1 /\ it' = it /\ phaseLog' = phaseLog
       ELSE IF it + 1 < gsIterations
            THEN pc' = "normal" /\ ci' = 1 /\ it' = it + 1
                 /\ phaseLog' = Append(phaseLog, "sweep")
            ELSE pc' = "cache" /\ ci' = ci /\ it' = it + 1 /\ phaseLog' = phaseLog
    /\ UNCHANGED << config, inContact, prevContacts, Iinv, steps,
                    startCube, solvedCube, fellBack >>

\* step(): the cache entry of one contact
CacheEntry(c) ==
    [r |-> c.r, lambda_n |-> c.lambda_n, lambda_t1 |-> c.lambda_t1,
     lambda_t2 |-> c.lambda_t2]

\* A variant of the cache write that keeps the entries of earlier steps.
CacheKeepingOld ==
    /\ pc = "cache"
    /\ prevContacts' = prevContacts \o [i \in 1..Len(contacts) |-> CacheEntry(contacts[i])]
    /\ pc' = "integrate"
    /\ phaseLog' = Append(phaseLog, "cache")
    /\ UNCHANGED << cube, config, inContact, contacts, Iinv, it, ci, steps,
                    startCube, solvedCube, fellBack >>

\* step(): cache lambdas for next frame warm starting
Cache ==
    /\ pc = "cache"
    /\ prevContacts' = [i \in 1..Len(contacts) |-> CacheEntry(contacts[i])]
    /\ pc' = "integrate"
    /\ phaseLog' = Append(phaseLog, "cache")
    /\ UNCHANGED << cube, config, inContact, contacts, Iinv, it, ci, steps,
                    startCube, solvedCube, fellBack >>

\* step(): 6) _integrate, and the return of step()
Integrate ==
    /\ pc = "integrate"
    /\ cube' = IntegrateCube(cube)
    /\ solvedCube' = cube
    /\ fellBack' = IF VFinite(IntegratePosition(cube.position, IntegrateVelocity(cube.velocity)))
                   THEN fellBack ELSE fellBack + 1
    /\ pc' = "idle"
    /\ steps' = steps + 1
    /\ phaseLog' = Append(phaseLog, "integrate")
    /\ UNCHANGED << config, inContact, prevContacts, contacts, Iinv, it, ci, startCube >>

Next ==
    \/ Collect
    \/ PreCorrect
    \/ Precompute
    \/ Match
    \/ Apply
    \/ SolveNormal
    \/ SolveT1
    \/ SolveT2
    \/ Cache
    \/ Integrate

Spec == Init /\ [][Next]_vars

\* ------------------------------------------------------------------------
\* A host that hands the body a non-finite velocity between two steps
\* ------------------------------------------------------------------------

NonFiniteVelocities == { <<PInf, 0, 0>>, <<0, NInf, 0>>, <<0, NaN, 0>> }

\* cube.setVelocity(v) with a vector that has a non-finite component
UserSetVelocity ==
    /\ pc = "idle"
    /\ steps < MaxSteps
    /\ VFinite(cube.velocity)
    /\ \E v \in NonFiniteVelocities : cube' = [cube EXCEPT !.velocity = v]
    /\ UNCHANGED << config, inContact, prevContacts, contacts, Iinv, pc, it, ci, steps,
                    phaseLog, startCube, solvedCube, fellBack >>

ScenariosNF ==
    { sc \in Scenarios : sc.w = Zero3 /\ sc.q = Identity /\ sc.v \in {Zero3, <<S, 2 * S, -S>>} }

InitNF == \E sc \in ScenariosNF : InitWith(sc, TRUE)

NextNF ==
    \/ Next
    \/ UserSetVelocity

SpecNF == InitNF /\ [][NextNF]_vars

\* ------------------------------------------------------------------------
\* A host that constructs the cube with a non-positive mass or size
\* ------------------------------------------------------------------------

\* <<size, mass>> pairs handed to new Cube(...); the inertia the constructor
\* derives from them, m * size^2 / 6, is non-positive for each.
MalformedBodies ==
    { <<SceneSize, -SceneMass>>, <<SceneSize, 0>>, <<0, SceneMass>>, <<-SceneSize, -SceneMass>> }

ScenariosMalformed ==
    { sc \in Scenarios : sc.x = <<0, 2 * S, 0>> /\ sc.q = Identity /\ sc.v[2] = 0 /\ sc.v[3] = 0 }

InitMalformed ==
    \E sc \in ScenariosMalformed : \E b \in MalformedBodies :
        InitBody(sc, TRUE, b[1], b[2], DefaultRestitution)

SpecMalformed == InitMalformed /\ [][Next]_vars

\* ------------------------------------------------------------------------
\* A host that places the cube so deep that more than four corners are at or
\* below the plane (Cube.setPosition)
\* ------------------------------------------------------------------------

ScenariosSunk ==
    LET sf == SceneStaticFriction
        kf == SceneKineticFriction
        G == DefaultGravity
    IN  { \* all eight corners well below the horizontal plane
          Scn(<<0, -3 * S, 0>>, Zero3, Zero3, Identity, 0, G, TRUE, sf, kf),
          \* the upper face within the slop below the plane
          Scn(<<0, -(2 * S + Frac(3, 1000)), 0>>, Zero3, Zero3, Identity, 0, G, TRUE, sf, kf),
          \* the upper face exactly at the slop below the plane, sliding
          Scn(<<0, -(2 * S + Frac(5, 1000)), 0>>, <<Frac(3, 10), 0, 0>>, Zero3, Identity,
              0, G, TRUE, sf, kf),
          \* tilted about z, the highest edge within the slop below the plane
          Scn(<<0, -Frac(27646, 10000), 0>>, Zero3, Zero3,
              <<0, 0, Frac(28, 100), Frac(96, 100)>>, 0, G, TRUE, sf, kf),
          \* the lower face within the slop below the plane
          Scn(<<0, 2 * S - Frac(3, 1000), 0>>, Zero3, Zero3, Identity, 0, G, TRUE, sf, kf),
          \* sunk into the inclined plane
          Scn(<<0, S, 0>>, Zero3, Zero3, Identity, 15, G, TRUE, sf, kf),
          Scn(<<0, -2 * S, 0>>, Zero3, Zero3, Identity, 15, G, TRUE, sf, kf) }

InitSunk == \E sc \in ScenariosSunk : \E warm \in BOOLEAN : InitWith(sc, warm)

SpecSunk == InitSunk /\ [][Next]_vars

\* ------------------------------------------------------------------------
\* Planes of different inclination (new Plane(angle)), the cube touching
\* them with an edge or a face
\* ------------------------------------------------------------------------

ScenariosInclined ==
    LET sf == SceneStaticFriction
        kf == SceneKineticFriction
        G == DefaultGravity
    IN  { \* at rest on the 30 degree plane, the lower edge overlapping it
          Scn(<<0, 3 * S + Frac(7, 10), 0>>, Zero3, Zero3, Identity, 30, G, TRUE, sf, kf),
          \* the same, sliding along z
          Scn(<<0, 3 * S + Frac(7, 10), 0>>, <<0, 0, Frac(3, 10)>>, Zero3, Identity,
              30, G, TRUE, sf, kf),
          \* the same, spinning about the edge
          Scn(<<0, 3 * S + Frac(7, 10), 0>>, Zero3, <<0, 0, Frac(2, 10)>>, Identity,
              30, G, TRUE, sf, kf),
          \* at rest on the 15 degree plane
          Scn(<<0, 2 * S + Frac(8, 10), 0>>, Zero3, Zero3, Identity, 15, G, TRUE, sf, kf),
          \* at rest on the horizontal plane
          Scn(<<0, 2 * S, 0>>, Zero3, Zero3, Identity, 0, G, TRUE, sf, kf) }

InitInclined == \E sc \in ScenariosInclined : \E warm \in BOOLEAN : InitWith(sc, warm)

SpecInclined == InitInclined /\ [][Next]_vars

\* ------------------------------------------------------------------------
\* The renderer's animation loop (SceneRenderer.animate, togglePause)
\* ------------------------------------------------------------------------

\* Number of animation frames followed while the renderer stays paused.
MaxPausedFrames == 2

\* What a step() works on, and what the renderer leaves alone.
stepState == << cube, inContact, prevContacts, contacts, Iinv, pc, it, ci, steps,
                phaseLog, startCube, solvedCube, fellBack >>

settings == << plane, gravity, linearDamping, angularDamping, warmStartEnabled,
               muS, muK, initCube, restitution >>

sliders == << rendererStaticFriction, rendererKineticFriction >>

surfaces == << friction, frictionLog >>

\* A variant of the frame that calls step() whatever this.paused holds.
AnimateIgnoringPause == Collect

\* animate() with paused false: the frame calls step()
AnimateRunning == ~paused /\ Collect

\* animate() with paused true: the frame only renders
AnimatePaused ==
    /\ paused
    /\ pc = "idle"
    /\ pausedFrames < MaxPausedFrames
    /\ pausedFrames' = pausedFrames + 1
    /\ UNCHANGED << stepState, settings, sliders, surfaces, paused, toggleResult >>

\* togglePause(): between two frames
TogglePause ==
    /\ pc = "idle"
    /\ paused' = ~paused
    /\ toggleResult' = paused'
    /\ pausedFrames' = 0
    /\ UNCHANGED << stepState, settings, sliders, surfaces >>

ScenariosScene ==
    { sc \in Scenarios : sc.q = Identity /\ sc.w = Zero3 /\ sc.g = DefaultGravity
                         /\ sc.v[2] = 0 /\ sc.v[3] = 0 }

InitScene == \E sc \in ScenariosScene : InitWith(sc, TRUE)

NextScene ==
    \/ AnimateRunning
    \/ AnimatePaused
    \/ TogglePause
    \/ PreCorrect
    \/ Precompute
    \/ Match
    \/ Apply
    \/ SolveNormal
    \/ SolveT1
    \/ SolveT2
    \/ Cache
    \/ Integrate

SpecScene == InitScene /\ [][NextScene]_vars

\* ------------------------------------------------------------------------
\* The friction sliders and the reset button (updateFrictionValues,
\* resetScene)
\* ------------------------------------------------------------------------

\* The values the sliders are moved to.
SliderStatic == { Frac(9, 10) }
SliderKinetic == { Frac(1, 10) }

\* The angles the reset button offers.
ResetAngles == { 0, 15 }

\* A variant of updateFrictionValues that also hands the values to the
\* running solver.
UpdateFrictionValuesLive ==
    /\ pc = "idle"
    /\ \E sf \in SliderStatic \cup {rendererStaticFriction} :
       \E kf \in SliderKinetic \cup {rendererKineticFriction} :
           /\ rendererStaticFriction' = sf
           /\ rendererKineticFriction' = kf
           /\ muS' = sf
           /\ muK' = kf
    /\ UNCHANGED << stepState, plane, gravity, linearDamping, angularDamping,
                    warmStartEnabled, initCube, restitution, surfaces,
                    paused, toggleResult, pausedFrames >>

\* updateFrictionValues(staticFriction, kineticFriction), called by the input
\* handler of either slider with the other value as stored
UpdateFrictionValues ==
    /\ pc = "idle"
    /\ \E sf \in SliderStatic \cup {rendererStaticFriction} :
       \E kf \in SliderKinetic \cup {rendererKineticFriction} :
           /\ (sf = rendererStaticFriction) # (kf = rendererKineticFriction)
           /\ rendererStaticFriction' = sf
           /\ rendererKineticFriction' = kf
    /\ UNCHANGED << stepState, settings, surfaces, paused, toggleResult, pausedFrames >>

\* resetScene(angle): a new plane, a new cube built from the stored friction
\* values, and a new solver, whose constructor reads the cube's coefficients
\* and puts the cube in its start state
ResetScene ==
    /\ pc = "idle"
    /\ \E angle \in ResetAngles :
           plane' = NewPlane(angle)
    /\ LET c0 == NewCube(<<-5 * S, 10 * S, 0>>, SceneSize, rendererStaticFriction,
                         rendererKineticFriction, SceneMass)
           c1 == [c0 EXCEPT !.position = <<0, 10 * S, 0>>, !.velocity = Zero3,
                            !.angularVelocity = Zero3]
       IN  /\ cube' = c1
           /\ muS' = c0.staticFriction
           /\ muK' = c0.kineticFriction
           /\ startCube' = c1
           /\ solvedCube' = c1
           /\ initCube' = c1
    /\ gravity' = DefaultGravity
    /\ linearDamping' = DefaultLinearDamping
    /\ angularDamping' = DefaultAngularDamping
    /\ warmStartEnabled' = TRUE
    /\ restitution' = DefaultRestitution
    /\ inContact' = FALSE
    /\ prevContacts' = <<>>
    /\ contacts' = <<>>
    /\ phaseLog' = <<>>
    /\ UNCHANGED << Iinv, pc, it, ci, steps, fellBack, sliders, surfaces,
                    paused, toggleResult, pausedFrames >>

InitSliders == \E sc \in ScenariosScene : InitWith(sc, TRUE)

NextSliders ==
    \/ Collect
    \/ UpdateFrictionValues
    \/ ResetScene
    \/ PreCorrect
    \/ Precompute
    \/ Match
    \/ Apply
    \/ SolveNormal
    \/ SolveT1
    \/ SolveT2
    \/ Cache
    \/ Integrate

SpecSliders == InitSliders /\ [][NextSliders]_vars

\* ------------------------------------------------------------------------
\* The Friction object (directional friction from two NDF grids)
\* ------------------------------------------------------------------------

\* this.numDirs
numDirs == 72

\* options.bins and options.taps as the host passes them; k, M, dTheta, FN,
\* Fref and alpha keep their defaults.
FrictionBins == 3
FrictionTaps == 5
FrictionK == 3 * S
FrictionM == S
FrictionDTheta == 0

\* this.loadscaling = Fref > 0 ? pow(FN / Fref, alpha) : 1 with FN = Fref = 1
loadscaling == S

Max(a, b) == IF a >= b THEN a ELSE b

\* The samples, weights and grid cells of a Friction object are finite numbers
\* of magnitude below 4: on them the product and the quotient (divisor > 0)
\* are the exact ones rounded to the nearest unit.
Times(a, b) == (a * b + S \div 2) \div S
Over(a, b) == (a * S + b \div 2) \div b

\* _overlap1D: dt = (2 * tMax) / Math.max(1, taps - 1)
TapStep(taps) == Over(2 * S, Max(1, taps - 1) * S)

\* Math.floor of a finite number, as an integer
Floor(a) == a \div S

\* Math.sin at the multiples of 5 degrees of the first quadrant.
SinTable ==
    << 0, 872, 1736, 2588, 3420, 4226, 5000, 5736, 6428, 7071,
       7660, 8192, 8660, 9063, 9397, 9659, 9848, 9962, 10000 >>

\* Math.sin(a) and Math.cos(a) for a = (i / numDirs) * 2 pi
SinDir(i) ==
    LET q == i % numDirs
    IN  IF q <= 18 THEN SinTable[q + 1]
        ELSE IF q <= 36 THEN SinTable[36 - q + 1]
        ELSE IF q <= 54 THEN -SinTable[q - 36 + 1]
        ELSE -SinTable[numDirs - q + 1]

CosDir(i) == SinDir(i + 18)

\* _buildGrid, the accumulation loop from sample i on: samples outside the
\* unit disk or outside the grid are skipped, a missing weight counts as 1
RECURSIVE AccumulateFrom(_, _, _, _, _)
AccumulateFrom(i, grid, samples, weights, bins) ==
    IF i > Len(samples) THEN grid
    ELSE LET s == samples[i]
             w == IF i <= Len(weights) THEN weights[i] ELSE S
             binSize == Over(2 * S, bins * S)
             bx == Floor(Over(s.x + S, binSize))
             by == Floor(Over(s.y + S, binSize))
             skip == \/ Times(s.x, s.x) + Times(s.y, s.y) > S
                     \/ bx < 0 \/ bx >= bins \/ by < 0 \/ by >= bins
             cell == by * bins + bx + 1
         IN  AccumulateFrom(i + 1,
                            IF skip THEN grid ELSE [grid EXCEPT ![cell] = @ + w],
                            samples, weights, bins)

\* _buildGrid: accumulate, then scale so that the largest cell becomes 1
BuildGrid(samples, weights, bins) ==
    LET grid == AccumulateFrom(1, [i \in 1..(bins * bins) |-> 0], samples, weights, bins)
        maxV == MaxOf({0} \cup {grid[i] : i \in 1..(bins * bins)})
        s == IF maxV > 0 THEN Over(S, maxV) ELSE S
    IN  [i \in 1..(bins * bins) |-> Times(grid[i], s)]

\* _sampleGrid: bilinear fetch at (x, y), 0 outside the unit disk
SampleGrid(grid, bins, x, y) ==
    IF Times(x, x) + Times(y, y) > S THEN 0
    ELSE LET u == Times(Times(x + S, S \div 2), (bins - 1) * S)
             v == Times(Times(y + S, S \div 2), (bins - 1) * S)
             x0 == Floor(u)
             y0 == Floor(v)
             x1 == Min(x0 + 1, bins - 1)
             y1 == Min(y0 + 1, bins - 1)
             tx == u - x0 * S
             ty == v - y0 * S
             idx(xi, yi) == yi * bins + xi + 1
             c0 == Times(grid[idx(x0, y0)], S - tx) + Times(grid[idx(x1, y0)], tx)
             c1 == Times(grid[idx(x0, y1)], S - tx) + Times(grid[idx(x1, y1)], tx)
         IN  Times(c0, S - ty) + Times(c1, ty)

\* _overlap1D, the loop from tap i on, for direction number dir
RECURSIVE OverlapFrom(_, _, _, _, _, _, _)
OverlapFrom(i, sum, g1, g2, bins, dir, taps) ==
    IF i >= taps THEN sum
    ELSE LET ux == CosDir(dir)
             uy == SinDir(dir)
             \* cos(dTheta) = 1, sin(dTheta) = 0 for dTheta = 0
             u2x == Times(S, ux) - Times(FrictionDTheta, uy)
             u2y == Times(FrictionDTheta, ux) + Times(S, uy)
             t == -S + i * TapStep(taps)
             f1 == SampleGrid(g1, bins, Times(t, ux), Times(t, uy))
             f2 == SampleGrid(g2, bins, Times(-t, u2x), Times(-t, u2y))
         IN  OverlapFrom(i + 1, sum + Times(f1, f2), g1, g2, bins, dir, taps)

\* _overlap1D: sum * dt
Overlap1D(g1, g2, bins, dir, taps) ==
    Times(OverlapFrom(0, 0, g1, g2, bins, dir, taps), TapStep(taps))

\* directionalProfile, one entry: k * overlap * loadscaling * M
DirectionMu(g1, g2, bins, dir, taps) ==
    Times(Times(Times(FrictionK, Overlap1D(g1, g2, bins, dir, taps)),
                loadscaling), FrictionM)

\* directionalProfile: the table { angles, mus } over the numDirs directions;
\* angles are kept as direction numbers (multiples of 2 pi / numDirs)
ProfileOf(g1, g2, bins, taps) ==
    [ angles |-> [i \in 1..numDirs |-> i - 1],
      mus |-> [i \in 1..numDirs |-> DirectionMu(g1, g2, bins, i - 1, taps)] ]

\* The sample lists and weight lists a host hands to the constructor and to
\* rebuild(): one sample at the centre; samples on the diagonal with one
\* outside the unit disk.
SampleLists ==
    { << [x |-> 0, y |-> 0] >>,
      << [x |-> Frac(1, 2), y |-> Frac(1, 2)], [x |-> -Frac(1, 2), y |-> -Frac(1, 2)],
         [x |-> Frac(9, 10), y |-> Frac(9, 10)], [x |-> 0, y |-> Frac(1, 10)] >> }

WeightLists == { <<>>, << 2 * S, Frac(1, 2) >> }

\* The angles getMuAtAngle is asked for, in units of pi / numDirs (half a
\* direction step): negative, inside the first step, a step boundary, and more
\* than a full turn.
AngleInputs == { -1, 1, 72, 163 }

\* JavaScript's %: the remainder takes the sign of the dividend
JsRem(a, b) == IF a < 0 THEN -((-a) % b) ELSE a % b

\* getMuAtAngle: Math.floor(((angle % 2 pi) / (2 pi)) * numDirs)
IndexOfAngle(angle) == JsRem(angle, 2 * numDirs) \div 2

\* An array read: undefined (the empty tuple) outside the array
ArrayAt(xs, index) == IF index >= 0 /\ index < Len(xs) THEN << xs[index + 1] >> ELSE <<>>

\* new Friction(..., areaWeights1, areaWeights2, ndfSamples1, ndfSamples2,
\* ..., { bins, taps })
NewFriction(w1, w2, s1, s2, bins, taps) ==
    LET g1 == BuildGrid(s1, w1, bins)
        g2 == BuildGrid(s2, w2, bins)
    IN  [ areaWeights1 |-> w1, areaWeights2 |-> w2,
          ndfSamples1 |-> s1, ndfSamples2 |-> s2,
          bins |-> bins, taps |-> taps,
          ndfGrid1 |-> g1, ndfGrid2 |-> g2,
          directionalProfileCache |-> ProfileOf(g1, g2, bins, taps) ]

\* What the history keeps: the grids the last directionalProfile() call read,
\* the last call, and what it was given and returned.
LogOf(f, call, angle, returned) ==
    [ grid1 |-> f.ndfGrid1, grid2 |-> f.ndfGrid2,
      call |-> call, angle |-> angle, returned |-> returned ]

rigidBody == << stepState, settings, sliders, paused, toggleResult, pausedFrames >>

\* rebuild(...) with the given lists replaced, the grids rebuilt
Rebuilt(f, s1, w1, s2, w2) ==
    [f EXCEPT !.ndfSamples1 = s1, !.areaWeights1 = w1,
              !.ndfSamples2 = s2, !.areaWeights2 = w2,
              !.ndfGrid1 = BuildGrid(s1, w1, f.bins),
              !.ndfGrid2 = BuildGrid(s2, w2, f.bins)]

\* A variant of rebuild that also recomputes the directional profile.
RebuildRefreshingProfile ==
    /\ friction # Null
    /\ \E s1 \in SampleLists \cup {friction.ndfSamples1} :
       \E w1 \in WeightLists \cup {friction.areaWeights1} :
       \E s2 \in SampleLists \cup {friction.ndfSamples2} :
       \E w2 \in WeightLists \cup {friction.areaWeights2} :
           LET f == Rebuilt(friction, s1, w1, s2, w2)
               g == [f EXCEPT !.directionalProfileCache =
                                   ProfileOf(f.ndfGrid1, f.ndfGrid2, f.bins, f.taps)]
           IN  /\ friction' = g
               /\ frictionLog' = LogOf(g, "rebuild", 0, <<>>)
    /\ UNCHANGED rigidBody

\* rebuild(ndfSamples1, areaWeights1, ndfSamples2, areaWeights2): an argument
\* that is not given keeps the stored list
Rebuild ==
    /\ friction # Null
    /\ \E s1 \in SampleLists \cup {friction.ndfSamples1} :
       \E w1 \in WeightLists \cup {friction.areaWeights1} :
       \E s2 \in SampleLists \cup {friction.ndfSamples2} :
       \E w2 \in WeightLists \cup {friction.areaWeights2} :
           /\ friction' = Rebuilt(friction, s1, w1, s2, w2)
           /\ frictionLog' = [frictionLog EXCEPT !.call = "rebuild", !.angle = 0,
                                                 !.returned = <<>>]
    /\ UNCHANGED rigidBody

\* directionalProfile(): recompute the table from the current grids
DirectionalProfile ==
    /\ friction # Null
    /\ LET f == [friction EXCEPT !.directionalProfileCache =
                     ProfileOf(friction.ndfGrid1, friction.ndfGrid2,
                               friction.bins, friction.taps)]
       IN  /\ friction' = f
           /\ frictionLog' = LogOf(f, "directionalProfile", 0, <<>>)
    /\ UNCHANGED rigidBody

\* getMuAtAngle(angle)
GetMuAtAngle ==
    /\ friction # Null
    /\ \E angle \in AngleInputs :
           LET f == IF friction.directionalProfileCache = Null
                    THEN [friction EXCEPT !.directionalProfileCache =
                              ProfileOf(friction.ndfGrid1, friction.ndfGrid2,
                                        friction.bins, friction.taps)]
                    ELSE friction
               returned == ArrayAt(f.directionalProfileCache.mus, IndexOfAngle(angle))
           IN  /\ friction' = f
               /\ frictionLog' =
                      IF friction.directionalProfileCache = Null
                      THEN LogOf(f, "getMuAtAngle", angle, returned)
                      ELSE [frictionLog EXCEPT !.call = "getMuAtAngle", !.angle = angle,
                                               !.returned = returned]
    /\ UNCHANGED rigidBody

\* A host that constructs a Friction object next to the scene.
InitFriction ==
    /\ \E sc \in { x \in ScenariosScene : x.x = <<0, 10 * S, 0>> } :
           InitRigidBody(sc, TRUE, SceneSize, SceneMass, DefaultRestitution)
    /\ \E s1 \in SampleLists \cup {<<>>} : \E s2 \in SampleLists :
           LET f == NewFriction(<<>>, <<>>, s1, s2, FrictionBins, FrictionTaps)
           IN  /\ friction = f
               /\ frictionLog = LogOf(f, "constructor", 0, <<>>)

NextFriction ==
    \/ Rebuild
    \/ DirectionalProfile
    \/ GetMuAtAngle

SpecFriction == InitFriction /\ [][NextFriction]_vars

\* ------------------------------------------------------------------------
\* Properties
\* ------------------------------------------------------------------------

\* The set of the indices of a sequence.
Indices(seq) == 1..Len(seq)

\* C1: every contact's accumulated normal impulse is >= 0 in every state:
\* in the contact list of the running step (after the warm-start match and
\* after each normal update of each sweep) and in the cache kept for the
\* next step, with warm starting enabled or disabled.
C1_NormalImpulseNonNegative ==
    /\ \A i \in Indices(contacts) : Ge(contacts[i].lambda_n, 0)
    /\ \A i \in Indices(prevContacts) : Ge(prevContacts[i].lambda_n, 0)

\* A normal update has just left a contact with a zero total although the
\* contact point still moves away from the plane: the clamp has acted.
C1_Witness ==
    /\ pc = "t1"
    /\ contacts[ci].lambda_n = 0
    /\ Gt(Dot(contacts[ci].n, RelativeVelocity(cube, contacts[ci].r)), 0)

\* C2: when the Gauss-Seidel iteration of a step has ended, each contact's
\* friction totals are within mu * lambda_n, mu being the coefficient the
\* last update of that contact and axis selected.
C2_FrictionWithinCone ==
    pc = "cache" =>
        \A i \in Indices(contacts) :
            /\ contacts[i].mu_t1 \in {muS, muK}
            /\ contacts[i].mu_t2 \in {muS, muK}
            /\ Le(MathAbs(contacts[i].lambda_t1),
                  Mul(contacts[i].mu_t1, contacts[i].lambda_n))
            /\ Le(MathAbs(contacts[i].lambda_t2),
                  Mul(contacts[i].mu_t2, contacts[i].lambda_n))

\* The iteration has ended with a contact that slides: its last t1 update
\* selected muK and its friction total sits on the bound.
C2_Witness ==
    /\ pc = "cache"
    /\ \E i \in Indices(contacts) :
          /\ Gt(contacts[i].lambda_n, 0)
          /\ contacts[i].mu_t1 = muK
          /\ muK # muS
          /\ MathAbs(contacts[i].lambda_t1) = Mul(muK, contacts[i].lambda_n)

\* The world position of corner i of the cube, and its signed distance.
WorldCorner(cb, i) ==
    VAdd(cb.position,
         ApplyMatrix3(Corners(Mul(S \div 2, cb.size))[i], QuatToMatrix3(cb.quaternion)))

CornerPhi(cb, pl, i) ==
    Dot(VNormalize(pl.normal), VSub(WorldCorner(cb, i), pl.point))

\* C3: _collectContacts returns one contact for each of the 8 corners with
\* phi <= 0 and none for the others, in the order of the corner list; each
\* contact has depth = -phi >= 0, the plane normal, and
\* r = worldCorner - centre of mass.
C3_CollectsExactlyTouchingCorners ==
    pc = "precorrect" =>
        /\ Len(contacts) <= 8
        /\ { contacts[k].corner : k \in Indices(contacts) }
               = { i \in 1..8 : CornerPhi(cube, plane, i) <= 0 }
        /\ \A k \in Indices(contacts) :
              /\ k > 1 => contacts[k - 1].corner < contacts[k].corner
              /\ contacts[k].depth = -CornerPhi(cube, plane, contacts[k].corner)
              /\ contacts[k].depth >= 0
              /\ contacts[k].n = VNormalize(plane.normal)
              /\ contacts[k].point = WorldCorner(cube, contacts[k].corner)
              /\ contacts[k].r = VSub(contacts[k].point, cube.position)

\* The contacts were collected from a cube with a corner exactly on the plane
\* and with other corners above it.
C3_Witness ==
    /\ pc = "precorrect"
    /\ \E k \in Indices(contacts) : contacts[k].depth = 0
    /\ Len(contacts) \in 1..7

\* The phases a complete step() runs, in order; the sweeps run only when the
\* step has contacts.
PhaseOrder(hasContacts) ==
    <<"collect", "precorrect", "precompute", "match", "apply">>
    \o [k \in 1..(IF hasContacts THEN gsIterations ELSE 0) |-> "sweep"]
    \o <<"cache", "integrate">>

IsPrefix(p, q) == Len(p) <= Len(q) /\ SubSeq(q, 1, Len(p)) = p

\* C4: every step() runs collect, pre-correction, precompute, warm-start
\* match, warm-start apply, the Gauss-Seidel sweeps, the cache and then the
\* integrator, in this order and each once: what a running step has done so
\* far is a prefix of that order, and a finished step has done all of it.
C4_PhasesInFixedOrder ==
    /\ IsPrefix(phaseLog, PhaseOrder(Len(contacts) > 0))
    /\ (pc = "idle" /\ steps > 0) => phaseLog = PhaseOrder(Len(contacts) > 0)
    /\ pc = "integrate" => phaseLog[Len(phaseLog)] = "cache"
    /\ pc = "cache" => (it = (IF Len(contacts) > 0 THEN gsIterations ELSE 0))

\* A step with contacts has finished: all its sweeps ran before the cache and
\* the integrator.
C4_Witness ==
    /\ pc = "idle"
    /\ steps > 1
    /\ Len(contacts) > 0
    /\ Len(phaseLog) = 7 + gsIterations

\* The squared norm of a quaternion, in units of 1 / S^2.
QuatNormSq(q) == q[1] * q[1] + q[2] * q[2] + q[3] * q[3] + q[4] * q[4]

\* The resolution of the squared norm: each of the four components is stored
\* to one unit of 1 / S.
UnitNormSlack == 4 * S

\* C5: after every step() the orientation quaternion has unit norm (to the
\* resolution of the stored components).
C5_UnitQuaternion ==
    pc = "idle" =>
        /\ QuatNormSq(cube.quaternion) - S * S <= UnitNormSlack
        /\ S * S - QuatNormSq(cube.quaternion) <= UnitNormSlack

\* A spinning cube has been stepped and its orientation has changed.
C5_Witness ==
    /\ pc = "idle"
    /\ steps > 1
    /\ cube.angularVelocity # Zero3
    /\ cube.quaternion # initCube.quaternion

\* The position the integrator computes from the cube it is handed.
ComputedPosition(cb) == IntegratePosition(cb.position, IntegrateVelocity(cb.velocity))

\* C6: the position is finite in every state, and a step whose integrator
\* computed a position with a non-finite component has stored the fallback
\* position (0, 2, 0) and has completed.
C6_FallbackKeepsPositionFinite ==
    /\ VFinite(cube.position)
    /\ (pc = "idle" /\ steps > 0 /\ ~VFinite(ComputedPosition(solvedCube)))
           => cube.position = FallbackPosition

\* A step has completed whose integrator computed a non-finite position and
\* stored the fallback.
C6_Witness ==
    /\ pc = "idle"
    /\ fellBack > 0
    /\ ~VFinite(ComputedPosition(solvedCube))
    /\ cube.position = FallbackPosition

CubeFinite(cb) ==
    /\ VFinite(cb.position)
    /\ VFinite(cb.velocity)
    /\ VFinite(cb.angularVelocity)
    /\ \A k \in 1..4 : isFinite(cb.quaternion[k])

\* C7: a non-finite integration result stays within its step: in the steps
\* after a fallback the position, the linear and angular velocity and the
\* orientation are all finite.
C7_NonFiniteContained ==
    (fellBack > 0 /\ pc # "idle") => CubeFinite(cube)

\* C8: with zero gravity, zero damping, zero angular velocity and no corner
\* touching the plane, a step changes the position by exactly V * dt and
\* leaves orientation, linear velocity and angular velocity unchanged.
C8_FreeFlightStep ==
    ( /\ pc = "idle" /\ steps > 0
      /\ gravity = Zero3 /\ linearDamping = 0 /\ angularDamping = 0
      /\ startCube.angularVelocity = Zero3
      /\ Len(contacts) = 0 )
    => /\ \A k \in 1..3 :
              cube.position[k]
                  = Add(startCube.position[k], Mul(startCube.velocity[k], dt))
       /\ cube.quaternion = startCube.quaternion
       /\ cube.velocity = startCube.velocity
       /\ cube.angularVelocity = startCube.angularVelocity

\* Such a step has been taken by a moving cube whose orientation is not the
\* identity.
C8_Witness ==
    /\ pc = "idle" /\ steps > 1
    /\ gravity = Zero3 /\ linearDamping = 0 /\ angularDamping = 0
    /\ startCube.angularVelocity = Zero3
    /\ Len(contacts) = 0
    /\ startCube.velocity # Zero3
    /\ cube.position # startCube.position
    /\ cube.quaternion # Identity

\* The component of a cube's velocity along the plane.
TangentialVelocity(cb, pl) ==
    LET n == VNormalize(pl.normal)
    IN  VAddScaled(cb.velocity, n, Neg(Dot(n, cb.velocity)))

\* The component of a cube's position along the plane.
TangentialPosition(cb, pl) ==
    LET n == VNormalize(pl.normal)
    IN  VAddScaled(cb.position, n, Neg(Dot(n, cb.position)))

\* The cube was set up touching the plane, no corner below it, not spinning.
StartsTouching ==
    /\ \A i \in 1..8 : CornerPhi(initCube, plane, i) >= 0
    /\ \E i \in 1..8 : CornerPhi(initCube, plane, i) = 0
    /\ initCube.angularVelocity = Zero3

\* C9: a cube that starts at rest touching the plane never has, at the end of
\* a step, a corner more than penetrationSlop below the plane.
C9_RestingCubeWithinSlop ==
    (pc = "idle" /\ StartsTouching /\ initCube.velocity = Zero3)
    => \A i \in 1..8 : -CornerPhi(cube, plane, i) <= penetrationSlop

C11_NoDivisionByNonPositiveK ==
    /\ pc = "normal" => ~Le(contacts[ci].K_n, 0)
    /\ pc = "t1" => ~Le(contacts[ci].K_t1, 0)
    /\ pc = "t2" => ~Le(contacts[ci].K_t2, 0)

\* A body with positive mass, positive edge size and positive principal
\* inertia.
WellFormedBody(cb) ==
    /\ Gt(cb.mass, 0)
    /\ Gt(cb.size, 0)
    /\ \A k \in 1..3 : Gt(cb.inertia[k], 0)

\* C12: no step() runs on a body with non-positive mass, inertia or size.
C12_NoStepOnMalformedBody ==
    (pc # "idle" \/ steps > 0) => WellFormedBody(cube)

\* The speed of contact c's point along the plane (both tangent directions
\* combined).
TangentialSpeed(c, cb) ==
    LET vRel == RelativeVelocity(cb, c.r)
    IN  Length(VAddScaled(vRel, c.n, Neg(Dot(c.n, vRel))))

\* The single-contact solver's threshold: speedT < 0.01 selects muS.
SpeedThreshold == Frac(1, 100)

\* The candidate total of contact c along t, from the body as it is now.
CandidateNow(c, t, lambda_t, K_t) ==
    Add(lambda_t, Div(Neg(Dot(t, RelativeVelocity(cube, c.r))), K_t))

\* The coefficient a static-cone test selects for a candidate total.
ConeMu(c, candidate) ==
    IF Gt(MathAbs(candidate), Mul(muS, c.lambda_n)) THEN muK ELSE muS

\* C13 as stated: a friction update of a sweep uses muS when the contact's
\* combined tangential speed is below the threshold, and muK otherwise.
C13_MuBySpeedThreshold ==
    LET speedMu(c) == IF Lt(TangentialSpeed(c, cube), SpeedThreshold) THEN muS ELSE muK
    IN  /\ pc = "t1" =>
              SelectMu(CandidateNow(contacts[ci], contacts[ci].t1,
                                    contacts[ci].lambda_t1, contacts[ci].K_t1),
                       contacts[ci].lambda_n) = speedMu(contacts[ci])
        /\ pc = "t2" =>
              SelectMu(CandidateNow(contacts[ci], contacts[ci].t2,
                                    contacts[ci].lambda_t2, contacts[ci].K_t2),
                       contacts[ci].lambda_n) = speedMu(contacts[ci])

\* C13, amended: a friction update of a sweep uses muK when the candidate
\* total of its axis exceeds muS * lambda_n in magnitude, and muS otherwise,
\* whatever the tangential speed.
C13_MuByStaticCone ==
    [][ /\ pc = "t1" =>
              contacts'[ci].mu_t1 =
                  ConeMu(contacts[ci], CandidateNow(contacts[ci], contacts[ci].t1,
                             contacts[ci].lambda_t1, contacts[ci].K_t1))
        /\ pc = "t2" =>
              contacts'[ci].mu_t2 =
                  ConeMu(contacts[ci], CandidateNow(contacts[ci], contacts[ci].t2,
                             contacts[ci].lambda_t2, contacts[ci].K_t2)) ]_vars

\* A t1 update is about to select muS, the candidate being inside the static
\* cone, for a contact that moves along the plane faster than the threshold.
C13_Witness ==
    /\ pc = "t1"
    /\ muS # muK
    /\ Gt(contacts[ci].lambda_n, 0)
    /\ Ge(TangentialSpeed(contacts[ci], cube), SpeedThreshold)
    /\ SelectMu(CandidateNow(contacts[ci], contacts[ci].t1,
                             contacts[ci].lambda_t1, contacts[ci].K_t1),
                contacts[ci].lambda_n) = muS

\* C14: no sweep adds a restitution term to a normal update: the new total
\* of every normal update is max(lambda_n - (vn + bias) / K_n, 0), whatever
\* this.restitution holds, on the first sweep of an impact as on every
\* later sweep and step.
C14_NoRestitutionInSweeps ==
    [][ pc = "normal" =>
            LET c == contacts[ci]
                vn == Dot(c.n, RelativeVelocity(cube, c.r))
            IN  contacts'[ci].lambda_n
                    = MathMax(Add(c.lambda_n, Div(Neg(Add(vn, c.bias)), c.K_n)), 0) ]_vars

\* The first normal update of an impact has run: the contact is new (nothing
\* was cached by the previous step), the cube arrived faster than 1 m/s, the
\* material is bouncy, and the update left a positive impulse.
C14_Witness ==
    /\ pc = "t1" /\ it = 0 /\ ci = 1
    /\ Len(prevContacts) = 0
    /\ restitution = Frac(8, 10)
    /\ Lt(startCube.velocity[2], -S)
    /\ Gt(contacts[ci].lambda_n, 0)

\* The impulses <<lambda_n, lambda_t1, lambda_t2>> of a contact or of a
\* cache entry.
Lambdas(c) == <<c.lambda_n, c.lambda_t1, c.lambda_t2>>

\* The squared distance of contact c's r to the r of cache entry j.
CacheDistance(c, j) == FineDistanceToSquared(c.r, prevContacts[j].r)

\* The first cache entry among those nearest to contact c (0: empty cache).
NearestCached(c) ==
    IF Len(prevContacts) = 0 THEN 0
    ELSE CHOOSE j \in Indices(prevContacts) :
            /\ \A k \in Indices(prevContacts) : CacheDistance(c, j) <= CacheDistance(c, k)
            /\ \A k \in 1..(j - 1) : CacheDistance(c, k) > CacheDistance(c, j)

\* The cube as the warm start found it: the solver has not touched the
\* velocities since the step began.
BeforeWarmStart ==
    [cube EXCEPT !.velocity = startCube.velocity,
                 !.angularVelocity = startCube.angularVelocity]

\* C15: with warm starting enabled each contact enters the first sweep with
\* the impulses of the nearest cached contact when its squared distance is
\* <= 1e-6 and with zero impulses otherwise, and the body has received each
\* contact's full impulse once; with warm starting disabled every contact
\* enters with zero impulses and the body has received nothing.
C15_WarmStart ==
    /\ pc = "apply" =>
          \A i \in Indices(contacts) :
              LET j == NearestCached(contacts[i])
              IN  Lambdas(contacts[i]) =
                      IF warmStartEnabled /\ j # 0 /\ CacheDistance(contacts[i], j) <= tolSq
                      THEN Lambdas(prevContacts[j])
                      ELSE <<0, 0, 0>>
    /\ ((pc = "normal" /\ it = 0 /\ ci = 1) \/ (pc = "cache" /\ Len(contacts) = 0)) =>
          cube = IF warmStartEnabled
                 THEN WarmStartApplyFrom(1, BeforeWarmStart, contacts, Iinv)
                 ELSE BeforeWarmStart

\* Warm starting is enabled, a contact has inherited a positive normal
\* impulse from the cache, and applying it has changed the body's velocity.
C15_Witness ==
    /\ pc = "normal" /\ it = 0 /\ ci = 1
    /\ warmStartEnabled
    /\ \E i \in Indices(contacts) :
          /\ Gt(contacts[i].lambda_n, 0)
          /\ Lambdas(contacts[i]) = Lambdas(prevContacts[NearestCached(contacts[i])])
    /\ cube.velocity # startCube.velocity

\* C16: while paused is true no frame calls step(): no step is under way and
\* the cube (position, orientation, velocities) and the warm-start cache do
\* not change, over any number of frames; togglePause() flips the flag and
\* returns its new value; once the flag is false the next frame calls step().
C16_PausedFreezesBody ==
    /\ [](paused => pc = "idle")
    /\ [][paused => (cube' = cube /\ prevContacts' = prevContacts /\ steps' = steps)]_vars
    /\ [][paused' # paused => (paused' = ~paused /\ toggleResult' = paused')]_vars
    /\ [][(~paused /\ pc = "idle") => (pc' = "precorrect" \/ paused')]_vars

\* The renderer was paused in the middle of a simulation, with a moving cube
\* and a filled cache, and frames have gone by since.
C16_Witness ==
    /\ paused
    /\ toggleResult
    /\ pausedFrames = MaxPausedFrames
    /\ steps > 1
    /\ Len(prevContacts) > 0
    /\ cube.velocity # Zero3

\* The number of phases and impulse updates a step() under way still has to
\* run before it returns.
Remaining ==
    LET L == Len(contacts)
        visitsLeft == (gsIterations - it - 1) * L + (L - ci)
    IN  CASE pc = "idle" -> 0
          [] pc = "precorrect" -> 6 + 3 * gsIterations * L
          [] pc = "precompute" -> 5 + 3 * gsIterations * L
          [] pc = "match" -> 4 + 3 * gsIterations * L
          [] pc = "apply" -> 3 + 3 * gsIterations * L
          [] pc = "normal" -> 5 + 3 * visitsLeft
          [] pc = "t1" -> 4 + 3 * visitsLeft
          [] pc = "t2" -> 3 + 3 * visitsLeft
          [] pc = "cache" -> 2
          [] pc = "integrate" -> 1

InSolver == pc \in {"normal", "t1", "t2"}

\* C17: every step() returns: it examines the 8 corners, finds at most 8
\* contacts, and each move it makes lowers by one the count of moves still to
\* run, which is zero exactly when no step is under way; it runs exactly
\* gsIterations sweeps that visit the contacts once each in the order of the
\* contact list, which no sweep changes, and no sweep body when there is no
\* contact.
C17_StepTerminates ==
    /\ [](Len(contacts) <= 8 /\ Len(Corners(Mul(S \div 2, cube.size))) = 8)
    /\ [](Remaining >= 0 /\ (Remaining = 0 <=> pc = "idle"))
    /\ [](InSolver => (it \in 0..(gsIterations - 1) /\ ci \in Indices(contacts)))
    /\ [][pc # "idle" => Remaining' = Remaining - 1]_vars
    /\ [][(pc = "apply" /\ InSolver') => (it' = 0 /\ ci' = 1)]_vars
    /\ [][(pc = "t2" /\ InSolver') =>
             \/ (ci < Len(contacts) /\ ci' = ci + 1 /\ it' = it)
             \/ (ci = Len(contacts) /\ ci' = 1 /\ it' = it + 1)]_vars
    /\ [][(pc = "t2" /\ pc' = "cache") =>
             (ci = Len(contacts) /\ it' = gsIterations)]_vars
    /\ [][InSolver => [i \in Indices(contacts') |-> contacts'[i].corner]
                        = [i \in Indices(contacts) |-> contacts[i].corner]]_vars

\* A step with four contacts is in its last sweep, at its last contact.
C17_Witness ==
    /\ pc = "t2"
    /\ it = gsIterations - 1
    /\ Len(contacts) = 4
    /\ ci = 4
    /\ steps > 0

\* C18: detectContact of the multi-contact solver returns null exactly when no
\* corner is collected; otherwise it reports a collected contact that no
\* contact exceeds in depth and that every earlier contact falls short of (the
\* first on ties); and it returns what detectContact of the single-contact
\* solver returns for the same body and plane.
C18_DetectContactDeepest ==
    LET all == CollectContacts(cube, plane)
        d == DetectContact(cube, plane)
    IN  /\ (d = Null) <=> (Len(all) = 0)
        /\ d # Null =>
             \E i \in Indices(all) :
                 /\ d = [ normal |-> all[i].n, point |-> all[i].point,
                          r |-> all[i].r, depth |-> all[i].depth ]
                 /\ \A j \in Indices(all) : ~Gt(all[j].depth, d.depth)
                 /\ \A j \in 1..(i - 1) : Lt(all[j].depth, d.depth)
        /\ d = DetectContactSingle(cube, plane)

\* A step has just collected four corners of a tilted cube: the deepest is
\* not the first, and a later one is exactly as deep.
C18_Witness ==
    LET all == CollectContacts(cube, plane)
        d == DetectContact(cube, plane)
    IN  /\ pc = "precorrect"
        /\ contacts = all
        /\ Len(all) = 4
        /\ d # Null
        /\ d.point # all[1].point
        /\ \E i, j \in Indices(all) :
               i < j /\ all[i].point = d.point /\ all[j].depth = d.depth

\* Contact c's impulse along one tangent is within the friction cone of its
\* normal impulse for muS or for muK.
InCone(lambda_t, lambda_n) ==
    \E mu \in {muS, muK} : Le(MathAbs(lambda_t), Mul(mu, lambda_n))

AfterMatch == pc \in {"apply", "normal", "t1", "t2", "cache"}

\* C19 as stated: from the warm-start match to the end of the sweeps, every
\* contact's two friction impulses are within the cone in every state.
C19_ConeInEveryState ==
    AfterMatch =>
        \A i \in Indices(contacts) :
            /\ InCone(contacts[i].lambda_t1, contacts[i].lambda_n)
            /\ InCone(contacts[i].lambda_t2, contacts[i].lambda_n)

\* C19, amended: from the warm-start match to the end of the sweeps every
\* friction impulse is within the cone of its contact's normal impulse,
\* except those of the contact being visited that are still to be re-clamped
\* after its normal impulse: both while the t1 update is next, the t2 impulse
\* while the t2 update is next.
C19_ConeExceptPending ==
    AfterMatch =>
        \A i \in Indices(contacts) :
            /\ ~(pc = "t1" /\ i = ci) =>
                   InCone(contacts[i].lambda_t1, contacts[i].lambda_n)
            /\ ~(pc \in {"t1", "t2"} /\ i = ci) =>
                   InCone(contacts[i].lambda_t2, contacts[i].lambda_n)

\* The visited contact's normal impulse has been lowered and its t1 impulse
\* re-clamped onto the bound, while its t2 impulse, not yet re-clamped, is
\* outside the cone.
C19_Witness ==
    /\ pc = "t2"
    /\ Gt(contacts[ci].lambda_n, 0)
    /\ MathAbs(contacts[ci].lambda_t1)
         = Mul(contacts[ci].mu_t1, contacts[ci].lambda_n)
    /\ ~InCone(contacts[ci].lambda_t2, contacts[ci].lambda_n)

\* The sum over contacts i.. of the accumulated impulse of each.
RECURSIVE SumImpulses(_, _)
SumImpulses(i, cs) ==
    IF i > Len(cs) THEN Zero3
    ELSE VAdd(ContactImpulse(cs[i]), SumImpulses(i + 1, cs))

\* The sum over contacts i.. of r x the accumulated impulse of each.
RECURSIVE SumTorques(_, _)
SumTorques(i, cs) ==
    IF i > Len(cs) THEN Zero3
    ELSE VAdd(Cross(cs[i].r, ContactImpulse(cs[i])), SumTorques(i + 1, cs))

\* The largest component of u - v, in units of the number grid.
MaxDiff(u, v) ==
    LET d == VSub(u, v)
        m(a, b) == IF a >= b THEN a ELSE b
    IN  m(m(AbsInt(d[1]), AbsInt(d[2])), AbsInt(d[3]))

AfterWarmStart == pc \in {"normal", "t1", "t2", "cache"}

\* The number of impulses applied to the body so far in this step.
UpdatesSoFar ==
    LET L == Len(contacts)
        visited == IF pc = "cache" THEN gsIterations * L ELSE it * L + (ci - 1)
    IN  L + 3 * visited + (IF pc = "t1" THEN 1 ELSE IF pc = "t2" THEN 2 ELSE 0)

\* How far the body's velocity change since the start of the step is from
\* (1/m) times the sum of the accumulated impulses.
LinDev == MaxDiff(VSub(cube.velocity, startCube.velocity),
                  VScale(SumImpulses(1, contacts), Div(S, cube.mass)))
\* How far the body's angular velocity change since the start of the step is
\* from Iinv applied to the sum of r x the accumulated impulses.
AngDev == MaxDiff(VSub(cube.angularVelocity, startCube.angularVelocity),
                  Mat3MulVec3(Iinv, SumTorques(1, contacts)))

\* The change of the visited contact's accumulated impulse over one update.
Increment ==
    LET c == contacts[ci]
        d == contacts'[ci]
    IN  VAdd(VAdd(VScale(c.n, Sub(d.lambda_n, c.lambda_n)),
                  VScale(c.t1, Sub(d.lambda_t1, c.lambda_t1))),
             VScale(c.t2, Sub(d.lambda_t2, c.lambda_t2)))

\* C20: every update of the sweeps changes the body by exactly the impulse
\* that is the difference between the visited contact's new and old totals,
\* and leaves the body alone when the total is unchanged; so from the
\* warm-start application on, the velocity change since the start of the step
\* is (1/m) times the sum of the contacts' accumulated impulses and the
\* angular velocity change is Iinv applied to the sum of r x those impulses,
\* to within one unit of the number grid per impulse applied so far.
C20_IncrementalImpulses ==
    /\ [][InSolver =>
            \A J \in {Increment} :
                cube' = IF Lambdas(contacts'[ci]) = Lambdas(contacts[ci])
                        THEN cube
                        ELSE ApplyImpulse(cube, contacts[ci].r, J, Iinv)]_vars
    /\ [][InSolver => \A i \in Indices(contacts) :
                          i # ci => contacts'[i] = contacts[i]]_vars
    /\ [](AfterWarmStart => (LinDev <= UpdatesSoFar /\ AngDev <= UpdatesSoFar))

\* In a later sweep two contacts carry normal and friction impulses, the body
\* turns and its velocity differs from that at the start of the step.
C20_Witness ==
    /\ InSolver
    /\ it > 1
    /\ \E i, j \in Indices(contacts) :
          /\ i # j
          /\ Gt(contacts[i].lambda_n, 0) /\ contacts[i].lambda_t1 # 0
          /\ Gt(contacts[j].lambda_n, 0) /\ contacts[j].lambda_t2 # 0
    /\ cube.velocity # startCube.velocity
    /\ cube.angularVelocity # startCube.angularVelocity

\* The contacts of the step under way that are deeper than the slop.
Movers == { i \in Indices(contacts) : Gt(contacts[i].depth, penetrationSlop) }

\* The first maxPreCorrectionContacts of them in contact order.
FirstMovers ==
    { i \in Movers : Cardinality({ j \in Movers : j < i }) < maxPreCorrectionContacts }

\* The sum of n * (depth - slop) / min(number of contacts, cap) over the
\* contacts from i on whose index is in the set.
RECURSIVE SumCorrections(_, _)
SumCorrections(i, set) ==
    IF i > Len(contacts) THEN Zero3
    ELSE VAdd(IF i \in set
              THEN VScale(contacts[i].n,
                          Div(Sub(contacts[i].depth, penetrationSlop),
                              Min(Len(contacts), maxPreCorrectionContacts) * S))
              ELSE Zero3,
              SumCorrections(i + 1, set))

\* C21: the pre-correction moves the body by the sum, over the first
\* maxPreCorrectionContacts contacts deeper than penetrationSlop, of
\* n * (depth - penetrationSlop) / min(number of contacts, cap), with the depth
\* measured at detection; contacts no deeper than the slop neither move the
\* body nor use up the cap; nothing but the position changes.
C21_PreCorrectionCapped ==
    /\ [](pc = "precorrect" => contacts = CollectContacts(startCube, plane))
    /\ [][pc = "precorrect" =>
            /\ Cardinality(FirstMovers) <= maxPreCorrectionContacts
            /\ cube' = [cube EXCEPT !.position =
                            VAdd(cube.position, SumCorrections(1, FirstMovers))]
            /\ contacts' = contacts]_vars

\* The pre-correction has moved a body with eight contacts of which the first
\* two are no deeper than the slop and six are deeper: the cap stopped it
\* after the sixth contact.
C21_Witness ==
    /\ pc = "precompute"
    /\ Len(contacts) = 8
    /\ 1 \notin Movers /\ 2 \notin Movers
    /\ Cardinality(Movers) = 6
    /\ FirstMovers = {3, 4, 5, 6}
    /\ cube.position # startCube.position

\* The greatest depth detected in the step under way (0 without contacts).
MaxDepth ==
    LET m(a, b) == IF a >= b THEN a ELSE b
        F[i \in 0..Len(contacts)] ==
            IF i = 0 THEN 0 ELSE m(F[i - 1], contacts[i].depth)
    IN  F[Len(contacts)]

\* The displacement the pre-correction of this step has applied.
PreCorrectionShift == VSub(cube.position, startCube.position)

\* C22: the pre-correction shifts the body along the plane normal, by a
\* length that is not negative and not more than the greatest detected depth
\* less the slop (each to within one unit of the number grid per contact
\* moved), and by nothing when no depth exceeds the slop.
C22_PreCorrectionBounded ==
    pc = "precompute" =>
        LET n == VNormalize(plane.normal)
            along == Dot(PreCorrectionShift, n)
            count == Cardinality(FirstMovers)
        IN  /\ MaxDiff(PreCorrectionShift, VScale(n, along)) <= count
            /\ along >= -count
            /\ Movers # {} => along <= MaxDepth - penetrationSlop + count
            /\ Movers = {} => PreCorrectionShift = Zero3

\* More contacts are deeper than the slop than the cap lets move the body, and
\* those that did have moved it by more than half the greatest depth.
C22_Witness ==
    /\ pc = "precompute"
    /\ Cardinality(Movers) > maxPreCorrectionContacts
    /\ 2 * Dot(PreCorrectionShift, VNormalize(plane.normal)) > MaxDepth

\* A step has written its cache: it is at its integrator or has returned.
CacheWritten == pc = "integrate" \/ (pc = "idle" /\ steps > 0)

\* C23: once a step has written the cache, with warm starting on or off, the
\* cache has one entry per contact detected in that step, in order, at most
\* 8, each with that contact's r and accumulated impulses as the sweeps left
\* them, and nothing else; and when the cache is empty at the warm-start
\* match, every contact goes on with zero impulses.
C23_CacheIsLastStep ==
    /\ [](CacheWritten =>
            /\ Len(prevContacts) = Len(CollectContacts(startCube, plane))
            /\ Len(prevContacts) <= 8
            /\ \A i \in Indices(prevContacts) :
                  /\ DOMAIN prevContacts[i] = {"r", "lambda_n", "lambda_t1", "lambda_t2"}
                  /\ prevContacts[i].r = CollectContacts(startCube, plane)[i].r
                  /\ prevContacts[i].r = contacts[i].r
                  /\ Lambdas(prevContacts[i]) = Lambdas(contacts[i]))
    /\ [][pc = "cache" => (Len(prevContacts') = Len(contacts) /\ contacts' = contacts)]_vars
    /\ []((pc = "apply" /\ Len(prevContacts) = 0) =>
            \A i \in Indices(contacts) : Lambdas(contacts[i]) = <<0, 0, 0>>)

\* With warm starting on, a step that follows a step without contact has
\* matched its four contacts against the empty cache.
C23_Witness ==
    /\ pc = "apply"
    /\ steps > 0
    /\ warmStartEnabled
    /\ Len(prevContacts) = 0
    /\ Len(contacts) = 4

\* No corner of the body the step began with is at or below the plane.
NoCornerTouches ==
    \A i \in 1..8 : ~Le(CornerPhi(startCube, plane, i), 0)

\* C24: in a step that begins with no corner at or below the plane, the
\* detection yields the empty list, inContact is false, every phase before the
\* integrator leaves the body as the step found it, all phases run, and the
\* body the step returns is what the integrator makes of the body the step
\* began with.
C24_NoContactStep ==
    /\ (pc # "idle" /\ NoCornerTouches) =>
          /\ contacts = <<>>
          /\ ~inContact
          /\ cube = startCube
          /\ IsPrefix(phaseLog, PhaseOrder(FALSE))
    /\ (pc = "idle" /\ steps > 0 /\ NoCornerTouches) =>
          /\ contacts = <<>>
          /\ ~inContact
          /\ solvedCube = startCube
          /\ cube = IntegrateCube(startCube)
          /\ phaseLog = PhaseOrder(FALSE)

\* A spinning cube falling under gravity, with warm starting on, has returned
\* from a second step without contact.
C24_Witness ==
    /\ pc = "idle"
    /\ steps > 1
    /\ NoCornerTouches
    /\ contacts = <<>>
    /\ warmStartEnabled
    /\ gravity # Zero3
    /\ startCube.angularVelocity # Zero3
    /\ cube.velocity # startCube.velocity

\* The phases of step() before the integrator.
BeforeIntegrator ==
    pc \in {"precorrect", "precompute", "match", "apply", "normal", "t1", "t2", "cache"}

\* C25 as stated: from the detection to the integrator the body's position
\* and orientation are those the step began with.
C25_SolverVelocityOnly ==
    (BeforeIntegrator \/ pc = "integrate") =>
        /\ cube.position = startCube.position
        /\ cube.quaternion = startCube.quaternion

\* C25, amended: before the integrator the pre-correction changes nothing but
\* the position, the precompute, the warm-start match and the cache write
\* leave the body alone, and the warm-start application and the sweeps change
\* nothing but the linear and the angular velocity; the orientation is that
\* of the start of the step until the integrator runs.
C25_SolverFrame ==
    /\ [][pc = "precorrect" =>
            (cube' = [cube EXCEPT !.position = cube'.position])]_vars
    /\ [][(pc \in {"precompute", "match", "cache"}) => (cube' = cube)]_vars
    /\ [][(pc \in {"apply", "normal", "t1", "t2"}) =>
            (cube' = [cube EXCEPT !.velocity = cube'.velocity,
                                  !.angularVelocity = cube'.angularVelocity])]_vars
    /\ []((BeforeIntegrator \/ pc = "integrate") =>
            cube.quaternion = startCube.quaternion)

\* In the sweeps of a tilted cube the pre-correction has moved the position
\* and the impulses have changed both velocities.
C25_Witness ==
    /\ pc = "t2"
    /\ it > 0
    /\ cube.position # startCube.position
    /\ cube.velocity # startCube.velocity
    /\ cube.angularVelocity # startCube.angularVelocity
    /\ cube.quaternion # Identity

\* The precompute of the step under way (or of the last step) has run.
Precomputed ==
    pc \in {"match", "apply", "normal", "t1", "t2", "cache", "integrate"}
    \/ (pc = "idle" /\ steps > 0)

\* The depth of contact i as the detection of this step measured it.
DetectedDepth(i) == Neg(CornerPhi(startCube, plane, contacts[i].corner))

\* C26: from the precompute to the end of the step every contact's bias is
\* (beta/dt) * (depth - penetrationSlop) when the depth measured at detection
\* exceeds penetrationSlop and 0 otherwise; it is never negative, and neither
\* the pre-correction's shift of the body nor a sweep changes it.
C26_BaumgarteBias ==
    /\ [](Precomputed =>
            \A i \in Indices(contacts) :
                /\ contacts[i].depth = DetectedDepth(i)
                /\ contacts[i].bias =
                       IF DetectedDepth(i) > penetrationSlop
                       THEN Mul(Div(beta, dt), DetectedDepth(i) - penetrationSlop)
                       ELSE 0
                /\ contacts[i].bias >= 0)
    /\ [][(Precomputed /\ pc # "idle") =>
            [i \in Indices(contacts') |-> contacts'[i].bias]
                = [i \in Indices(contacts) |-> contacts[i].bias]]_vars

\* In a later sweep one contact is deeper than the slop and has a positive
\* bias, another is within the slop and has none, and the pre-correction has
\* moved the body, so the corner is no longer as deep as the bias assumes.
C26_Witness ==
    /\ pc = "normal"
    /\ it > 0
    /\ \E i, j \in Indices(contacts) :
          /\ contacts[i].bias > 0
          /\ contacts[j].bias = 0
          /\ contacts[j].depth > 0
          /\ Neg(CornerPhi(cube, plane, contacts[i].corner)) # contacts[i].depth

\* The tangential part of the relative velocity at contact c of body cb.
TangentialPart(c, cb) ==
    LET vRel == RelativeVelocity(cb, c.r)
    IN  VSub(vRel, VScale(c.n, Dot(c.n, vRel)))

\* The axis the Gram-Schmidt step starts from for normal n.
StartAxis(n) == IF MathAbs(n[2]) < Frac(9, 10) THEN <<0, S, 0>> ELSE <<S, 0, 0>>

\* v has unit length, to within the rounding of its three components.
IsUnit(v) ==
    /\ FineLengthSq(v) - S * S <= 3 * S
    /\ S * S - FineLengthSq(v) <= 3 * S

\* The rounding of the tangential velocity's components, as it shows in the
\* direction of the vector normalized from it: two grid units over its length.
DirectionSlack(vt) ==
    IF Length(vt) = 0 THEN 0 ELSE (2 * S) \div Length(vt)

\* C27: t1 and t2 are null until the precompute has run and vectors from
\* then on, so the warm-start application and the sweeps never read a null;
\* for the unit normal n, t1 is of unit length (not zero), orthogonal to n,
\* and t2 is the normalized n x t1, itself of unit length; where the
\* tangential relative velocity the precompute saw is negligible, t1 is the
\* normalized part orthogonal to n of (0,1,0) if |n.y| < 0.9 and of (1,0,0)
\* otherwise, a vector that is not zero; elsewhere t1 is the normalized
\* tangential velocity.
C27_TangentBasis ==
    /\ pc \in {"precorrect", "precompute"} =>
          \A i \in Indices(contacts) :
              contacts[i].t1 = Null /\ contacts[i].t2 = Null
    /\ Precomputed =>
          \A i \in Indices(contacts) :
              LET c == contacts[i]
                  vt == TangentialPart(c, startCube)
                  axis == StartAxis(c.n)
                  rest == VSub(axis, VScale(c.n, Dot(axis, c.n)))
                  slack == 2 + DirectionSlack(vt)
              IN  /\ c.t1 # Null /\ c.t2 # Null
                  /\ IsUnit(c.n)
                  /\ c.t1 # Zero3
                  /\ FineLengthSq(c.t1) - S * S <= 3 * S + S * DirectionSlack(vt)
                  /\ S * S - FineLengthSq(c.t1) <= 3 * S + S * DirectionSlack(vt)
                  /\ IsUnit(c.t2)
                  /\ MathAbs(Dot(c.t1, c.n)) <= slack
                  /\ FineLengthSq(Cross(c.n, c.t1)) > 0
                  /\ c.t2 = VNormalize(Cross(c.n, c.t1))
                  /\ MaxDiff(c.t2, Cross(c.n, c.t1)) <= slack
                  /\ IF FineLengthSq(vt) <= TangentEpsSq
                     THEN FineLengthSq(rest) > 0 /\ c.t1 = VNormalize(rest)
                     ELSE c.t1 = VNormalize(vt)

\* On the 30 degree plane, where |n.y| < 0.9, the precompute has built the
\* basis of a contact without tangential velocity from the axis (0,1,0).
C27_Witness ==
    /\ pc = "match"
    /\ Len(contacts) = 2
    /\ MathAbs(contacts[1].n[2]) < Frac(9, 10)
    /\ FineLengthSq(TangentialPart(contacts[1], cube)) <= TangentEpsSq
    /\ contacts[1].t1[2] > 0

\* C28: a step returns with the velocity (v + gravity*dt) * (1 - linearDamping)
\* and the angular velocity w * (1 - angularDamping), v and w being what the
\* solver phases left; the position has advanced by dt times that returned
\* velocity and the orientation by the quaternion update with that returned
\* angular velocity.
C28_SemiImplicitIntegrator ==
    (pc = "idle" /\ steps > 0) =>
        /\ \A k \in 1..3 :
              /\ cube.velocity[k] =
                     Mul(Add(solvedCube.velocity[k], Mul(gravity[k], dt)),
                         Sub(S, linearDamping))
              /\ cube.angularVelocity[k] =
                     Mul(solvedCube.angularVelocity[k], Sub(S, angularDamping))
              /\ cube.position[k] =
                     Add(solvedCube.position[k], Mul(cube.velocity[k], dt))
        /\ cube.quaternion =
               IntegrateQuaternion(solvedCube.quaternion, cube.angularVelocity)

\* A damped, falling, spinning cube has returned from a step: the position
\* it has differs from the one the velocity before the integrator would give,
\* and so does the orientation.
C28_Witness ==
    /\ pc = "idle" /\ steps > 1
    /\ linearDamping > 0 /\ angularDamping > 0
    /\ gravity # Zero3
    /\ cube.velocity # solvedCube.velocity
    /\ cube.angularVelocity # solvedCube.angularVelocity
    /\ cube.position # IntegratePosition(solvedCube.position, solvedCube.velocity)
    /\ cube.quaternion
         # IntegrateQuaternion(solvedCube.quaternion, solvedCube.angularVelocity)

\* The friction coefficients the running simulation works with.
SimulationFriction == << cube.staticFriction, cube.kineticFriction, muS, muK >>

\* C29: a move that changes the renderer's stored friction values changes
\* nothing else, so the cube's coefficients and the solver's muS and muK stay
\* as they are through all later steps; they change only in a move made
\* between two steps that builds a new cube and a new solver in its start
\* state, and then to the stored values; the solver's coefficients are always
\* the cube's.
C29_SlidersTakeEffectOnReset ==
    /\ [][sliders' # sliders =>
            UNCHANGED << stepState, settings, paused, toggleResult, pausedFrames >>]_vars
    /\ [][SimulationFriction' # SimulationFriction =>
            /\ pc = "idle" /\ pc' = "idle"
            /\ SimulationFriction' = << rendererStaticFriction, rendererKineticFriction,
                                        rendererStaticFriction, rendererKineticFriction >>
            /\ sliders' = sliders
            /\ cube'.position = <<0, 10 * S, 0>>
            /\ cube'.velocity = Zero3
            /\ prevContacts' = <<>>]_vars
    /\ [](muS = cube.staticFriction /\ muK = cube.kineticFriction)

\* Both sliders have been moved, and a later step's friction update works
\* with the coefficients the solver read when it was built.
C29_Witness ==
    /\ pc = "t2"
    /\ steps > 0
    /\ rendererStaticFriction # muS
    /\ rendererKineticFriction # muK
    /\ contacts[ci].mu_t1 \in {muS, muK}
    /\ contacts[ci].lambda_t1 # 0

\* ------------------------------------------------------------------------
\* C30  Friction.rebuild() replaces the two NDF grids by grids built from the
\* (possibly new) samples and weights and leaves directionalProfileCache as
\* it was; getMuAtAngle() therefore returns, for every angle that falls on
\* the table, the entry of the profile computed from the grids as they were
\* at the last directionalProfile() call (the constructor's included), also
\* when the grids have been rebuilt since.
\* ------------------------------------------------------------------------

\* The profile entry for the angle, computed from the grids the last
\* directionalProfile() call read.
ProfiledMu ==
    IF IndexOfAngle(frictionLog.angle) \in 0..(numDirs - 1)
    THEN << DirectionMu(frictionLog.grid1, frictionLog.grid2, friction.bins,
                        IndexOfAngle(frictionLog.angle), friction.taps) >>
    ELSE <<>>

\* The profile entry for the angle, computed from the grids as they are now.
CurrentMu ==
    IF IndexOfAngle(frictionLog.angle) \in 0..(numDirs - 1)
    THEN << DirectionMu(friction.ndfGrid1, friction.ndfGrid2, friction.bins,
                        IndexOfAngle(frictionLog.angle), friction.taps) >>
    ELSE <<>>

C30_RebuildKeepsProfileCache ==
    /\ [][(friction # Null /\ surfaces' # surfaces /\ frictionLog'.call = "rebuild") =>
            (/\ friction'.directionalProfileCache = friction.directionalProfileCache
             /\ friction'.ndfGrid1 = BuildGrid(friction'.ndfSamples1,
                                               friction'.areaWeights1, friction.bins)
             /\ friction'.ndfGrid2 = BuildGrid(friction'.ndfSamples2,
                                               friction'.areaWeights2, friction.bins)
             /\ frictionLog'.grid1 = frictionLog.grid1
             /\ frictionLog'.grid2 = frictionLog.grid2)]_vars
    /\ []((friction # Null /\ frictionLog.call = "getMuAtAngle") =>
            (/\ frictionLog.returned =
                    ArrayAt(friction.directionalProfileCache.mus,
                            IndexOfAngle(frictionLog.angle))
             /\ frictionLog.returned = ProfiledMu
             /\ IndexOfAngle(frictionLog.angle) \in 0..(numDirs - 1) =>
                    frictionLog.returned # <<>>))

\* getMuAtAngle() has returned a stale value: the grids were rebuilt after the
\* last directionalProfile() call, and the profile of the current grids has a
\* different entry for the angle.
C30_Witness ==
    /\ friction # Null
    /\ frictionLog.call = "getMuAtAngle"
    /\ frictionLog.returned # <<>>
    /\ << friction.ndfGrid1, friction.ndfGrid2 >> # << frictionLog.grid1, frictionLog.grid2 >>
    /\ frictionLog.returned # CurrentMu
    /\ frictionLog.returned[1] > 0

====
